---------------------------- MODULE Spec2Model ----------------------------
(***************************************************************************)
(* Model of the wasm-processor crate: the Record Store (DataProcessor,     *)
(* data_processor.rs), the Similarity Index (VectorSearchProcessor,        *)
(* vector_search.rs) and the boundary that owns them (lib.rs).             *)
(*                                                                         *)
(* Strings the code lowercases and searches (state, course_name, ...) are  *)
(* sequences of one-character strings; opaque strings (ids) are TLA+       *)
(* strings.  An Option<T> is a record [some, v].  A JSON payload is a      *)
(* record that says whether the text is well formed and what it holds;     *)
(* decoding and encoding are computed from it.                             *)
(***************************************************************************)
EXTENDS Integers, Sequences, FiniteSets, TLC

VARIABLES
    dp,     \* DATA_PROCESSOR slot: Option<DataProcessor>
    vs,     \* VECTOR_SEARCH_PROCESSOR slot: Option<VectorSearchProcessor>
    call,   \* the last call made: its inputs, the slots it found, its return value
    guard,  \* the Mutex of each slot: the caller that holds it, or Free
    pc,     \* each caller: the function it is in and how far it has got
    mm,     \* a MemoryManager, as its own methods leave it
    cp      \* COMPRESSION_PROCESSOR: its slot, whether its Mutex is poisoned, and
            \* whether the build checks integer overflow

vars == <<dp, vs, call, guard, pc, mm, cp>>

(***************************************************************************)
(* Bounds of the model                                                     *)
(***************************************************************************)
MaxRecords == 3     \* the ingest guard keeps at most this many records in the store
MaxBatch == 2       \* longest ingest payload
MaxOps == 3         \* most latency samples kept in one list before a clear
MaxLimit == 3       \* largest search limit tried
MaxStored == 2      \* longest store the filter specification starts from
MaxVectors == 3     \* most identifiers in the index the search specification starts from
MaxCalls == 4       \* most counted work (samples, vectors indexed) before a clear
MaxTokens == 3       \* most words in a text of the embedding specification
MaxData == 2        \* longest byte sequence given to compress_lz4
MaxCompressions == 2 \* most compress_lz4 calls counted by one CompressionProcessor
MaxAnalysed == 2    \* longest payload given to calculate_analytics
MaxAllocations == 3 \* most allocate calls counted by one MemoryManager
MaxGc == 1          \* most clear_all calls counted by one MemoryManager
MaxGuarded == 2     \* most counted work, finished or under way, with callers side by side

(***************************************************************************)
(* Generic helpers                                                         *)
(***************************************************************************)
Min(a, b) == IF a <= b THEN a ELSE b

RECURSIVE SumSeq(_)
SumSeq(s) == IF s = <<>> THEN 0 ELSE Head(s) + SumSeq(Tail(s))

RECURSIVE Gcd(_, _)
Gcd(a, b) == IF b = 0 THEN a ELSE Gcd(b, a % b)

SeqsUpTo(S, n) == UNION { [1..k -> S] : k \in 0..n }

\* the member of a set of one: Only({e(x) : x \in {v}}) is e(v) with v
\* computed once
Only(S) == CHOOSE x \in S : TRUE

\* Option<T>
Some(x) == [some |-> TRUE, v |-> x]
NoneNum == [some |-> FALSE, v |-> 0]
NoneStr == [some |-> FALSE, v |-> <<>>]

(***************************************************************************)
(* str::to_lowercase and str::contains over the characters the model uses  *)
(***************************************************************************)
LowerChar(c) ==
    CASE c = "A" -> "a" [] c = "B" -> "b" [] c = "C" -> "c" [] c = "D" -> "d"
      [] c = "E" -> "e" [] c = "F" -> "f" [] c = "G" -> "g" [] c = "H" -> "h"
      [] c = "I" -> "i" [] c = "J" -> "j" [] c = "K" -> "k" [] c = "L" -> "l"
      [] c = "M" -> "m" [] c = "N" -> "n" [] c = "O" -> "o" [] c = "P" -> "p"
      [] c = "Q" -> "q" [] c = "R" -> "r" [] c = "S" -> "s" [] c = "T" -> "t"
      [] c = "U" -> "u" [] c = "V" -> "v" [] c = "W" -> "w" [] c = "X" -> "x"
      [] c = "Y" -> "y" [] c = "Z" -> "z"
      [] OTHER -> c

to_lowercase(s) == [i \in 1..Len(s) |-> LowerChar(s[i])]

contains(hay, needle) ==
    \E off \in 0..(Len(hay) - Len(needle)) :
        \A i \in 1..Len(needle) : hay[off + i] = needle[i]


(***************************************************************************)
(* CutoffRecord (data_processor.rs:8-24) and the records the model ingests *)
(***************************************************************************)
\* The base record; every other record of the universe differs from it in the
\* fields named by its definition.
R0 ==
    [ id |-> "r0", college_id |-> "c1", college_name |-> <<"G", "m", "c">>,
      course_id |-> "k1", course_name |-> <<"M", "d">>,
      year |-> 2023, round |-> 1, opening_rank |-> 300, closing_rank |-> 400,
      category |-> <<"O", "b", "c">>, state |-> <<"G", "o", "a">>,
      counselling_body |-> <<"M", "c", "c">>, level |-> <<"U", "G">>,
      stream |-> <<"M", "e", "d">> ]

ROpen10 == [R0 EXCEPT !.id = "r1", !.opening_rank = 10]
ROpen500 == [R0 EXCEPT !.id = "r2", !.opening_rank = 500]      \* closing < opening
RState == [R0 EXCEPT !.id = "r3", !.state = <<"U", "P">>]
RClose5 == [R0 EXCEPT !.id = "r4", !.closing_rank = 5]          \* closing < opening
RClose900 == [R0 EXCEPT !.id = "r5", !.closing_rank = 900]
RYear == [R0 EXCEPT !.id = "r6", !.year = 2024]
RRound == [R0 EXCEPT !.id = "r7", !.round = 2]
RCourse == [R0 EXCEPT !.id = "r8", !.course_name = <<"M", "s">>]
RCollege == [R0 EXCEPT !.id = "r9", !.college_name = <<"A", "m", "u">>]
RCategory == [R0 EXCEPT !.id = "r10", !.category = <<"S", "c">>]
RBody == [R0 EXCEPT !.id = "r11", !.counselling_body = <<"K", "e", "a">>]
RLevel == [R0 EXCEPT !.id = "r12", !.level = <<"P", "G">>]
RStream == [R0 EXCEPT !.id = "r13", !.stream = <<"D", "e", "n">>]

\* Records of the ingest/search/clear specification: three opening ranks, and a
\* tie on opening rank 300 between R0 and RState.
StoreRecords == {R0, ROpen10, ROpen500, RState}

\* Records of the filter specification, in catalogue order: for each filtered
\* field, R0 and a record that differs from R0 in that field.
FilterRecords ==
    <<R0, ROpen10, ROpen500, RState, RClose5, RClose900, RYear, RRound, RCourse,
      RCollege, RCategory, RBody, RLevel, RStream>>

(***************************************************************************)
(* JSON payloads.  A record object is [complete, fields]: complete is      *)
(* FALSE when a required field is missing; a u32 field may hold a number   *)
(* outside u32 (the model uses -1).  A payload is [wf, items]: wf is FALSE *)
(* when the text is not a JSON array of objects.                           *)
(***************************************************************************)
JsonObject(r) == [complete |-> TRUE, fields |-> r]
JsonMissingField == [complete |-> FALSE, fields |-> R0]
JsonNegativeRank == [complete |-> TRUE, fields |-> [R0 EXCEPT !.opening_rank = -1]]
JsonArray(items) == [wf |-> TRUE, items |-> items]
JsonMalformed == [wf |-> FALSE, items |-> <<>>]

IsU32(n) == n >= 0      \* the upper limit 2^32-1 is beyond every number of the model

\* serde's derived Deserialize for CutoffRecord: every field required, u32 fields in range
DecodableRecord(o) ==
    /\ o.complete
    /\ IsU32(o.fields.year) /\ IsU32(o.fields.round)
    /\ IsU32(o.fields.opening_rank) /\ IsU32(o.fields.closing_rank)

Ok(v) == [ok |-> TRUE, val |-> v]
Err(e) == [ok |-> FALSE, val |-> e]

\* serde_json::from_str::<Vec<CutoffRecord>>
DecodeRecords(json) ==
    IF json.wf /\ \A i \in 1..Len(json.items) : DecodableRecord(json.items[i])
    THEN Ok([i \in 1..Len(json.items) |-> json.items[i].fields])
    ELSE Err("decode")

\* serde_json::to_string(&Vec<CutoffRecord>)
EncodeRecords(rs) == JsonArray([i \in 1..Len(rs) |-> JsonObject(rs[i])])

(***************************************************************************)
(* CutoffFilters (data_processor.rs:26-39) and its JSON payload            *)
(***************************************************************************)
NoFilters ==
    [ year |-> NoneNum, round |-> NoneNum, state |-> NoneStr, course |-> NoneStr,
      college |-> NoneStr, min_rank |-> NoneNum, max_rank |-> NoneNum,
      category |-> NoneStr, counselling_body |-> NoneStr, level |-> NoneStr,
      stream |-> NoneStr ]

FilterFields == DOMAIN NoFilters

\* One filter per predicate, each satisfied by R0; the string values differ in
\* case from the records' text.
SinglePredicateFilters ==
    { [NoFilters EXCEPT !.year = Some(2023)],
      [NoFilters EXCEPT !.round = Some(1)],
      [NoFilters EXCEPT !.state = Some(<<"g", "O">>)],
      [NoFilters EXCEPT !.course = Some(<<"M", "D">>)],
      [NoFilters EXCEPT !.college = Some(<<"g", "M">>)],
      [NoFilters EXCEPT !.min_rank = Some(300)],
      [NoFilters EXCEPT !.max_rank = Some(400)],
      [NoFilters EXCEPT !.category = Some(<<"B", "C">>)],
      [NoFilters EXCEPT !.counselling_body = Some(<<"m", "C">>)],
      [NoFilters EXCEPT !.level = Some(<<"u", "g">>)],
      [NoFilters EXCEPT !.stream = Some(<<"E", "d">>)] }

\* The predicates of f, and those of g that f leaves absent
MergeFilters(f, g) == [k \in FilterFields |-> IF f[k].some THEN f[k] ELSE g[k]]

\* Filters with at most two predicates present
FilterUniverse ==
    { MergeFilters(f, g) : f, g \in SinglePredicateFilters \cup {NoFilters} }

JsonFilter(f) == [wf |-> TRUE, fields |-> f]
JsonFilterMalformed == [wf |-> FALSE, fields |-> NoFilters]
JsonFilterNegativeRank == JsonFilter([NoFilters EXCEPT !.min_rank = Some(-1)])

\* serde_json::from_str::<CutoffFilters>: every field optional, u32 fields in range
DecodeFilters(json) ==
    IF /\ json.wf
       /\ \A k \in {"year", "round", "min_rank", "max_rank"} :
              json.fields[k].some => IsU32(json.fields[k].v)
    THEN Ok(json.fields)
    ELSE Err("decode")

(***************************************************************************)
(* slice::sort_by / sort_by_key on a slice of at most 20 elements: a       *)
(* stable insertion sort (insert_tail shifts the new element left while    *)
(* is_less(new, previous)).                                                *)
(***************************************************************************)
\* order lists positions of the slice, already sorted; x is the position to
\* insert; less[i][j] says whether the element at i is less than the one at j
InsertTail(order, x, less) ==
    LET stop == {p \in 1..Len(order) : ~less[x][order[p]]}
        q == IF stop = {} THEN 0 ELSE CHOOSE p \in stop : \A k \in stop : k <= p
    IN  SubSeq(order, 1, q) \o <<x>> \o SubSeq(order, q + 1, Len(order))

\* the positions 1..n in sorted order
InsertionSort(n, less) ==
    LET sorted[k \in 0..n] ==
            IF k = 0 THEN <<>> ELSE InsertTail(sorted[k - 1], k, less)
    IN  sorted[n]

\* the slice s sorted, given less over its positions
Sorted(s, less) == [p \in 1..Len(s) |-> s[InsertionSort(Len(s), less)[p]]]

\* a mutant of Take: one element too many
Take_one_more(s, limit) == SubSeq(s, 1, Min(limit + 1, Len(s)))

\* Iterator::take(limit) / Vec::truncate(limit)
Take(s, limit) == SubSeq(s, 1, Min(limit, Len(s)))

\* the elements of s at the positions where keep holds, in order (filter().collect())
FilterSeq(s, keep) ==
    LET kept[n \in 0..Len(s)] ==
            IF n = 0 THEN <<>>
            ELSE IF keep[n] THEN Append(kept[n - 1], s[n]) ELSE kept[n - 1]
    IN  kept[Len(s)]

(***************************************************************************)
(* DataProcessor (data_processor.rs)                                       *)
(***************************************************************************)
\* a running average, sum / len, kept as a fraction in lowest terms
Average(times) ==
    LET n == SumSeq(times)
        d == Len(times)
        g == Gcd(n, d)
    IN  [n |-> n \div g, d |-> d \div g]

ZeroAverage == [n |-> 0, d |-> 1]

DataProcessorStatsZero ==
    [ total_records_processed |-> 0, total_searches_performed |-> 0,
      average_processing_time |-> ZeroAverage, average_search_time |-> ZeroAverage,
      total_records_indexed |-> 0 ]

\* DataProcessor::new
DataProcessor_new ==
    [ records |-> <<>>, stats |-> DataProcessorStatsZero,
      processing_times |-> <<>>, search_times |-> <<>> ]

\* DataProcessor::process_record: a field-by-field copy
process_record(record) ==
    [ id |-> record.id, college_id |-> record.college_id,
      college_name |-> record.college_name, course_id |-> record.course_id,
      course_name |-> record.course_name, year |-> record.year,
      round |-> record.round, opening_rank |-> record.opening_rank,
      closing_rank |-> record.closing_rank, category |-> record.category,
      state |-> record.state, counselling_body |-> record.counselling_body,
      level |-> record.level, stream |-> record.stream ]

\* a mutant of text_matches: the filter's text is not lowercased
text_matches_needle_as_given(text, needle) == contains(to_lowercase(text), needle)

\* the substring predicates of matches_filters:
\* record.<field>.to_lowercase().contains(&<filter>.to_lowercase())
text_matches(text, needle) == contains(to_lowercase(text), to_lowercase(needle))

\* a mutant of rank_range_matches: max_rank is compared with the opening rank
rank_range_matches_max_on_opening(record, filters) ==
    /\ filters.min_rank.some => ~(record.opening_rank < filters.min_rank.v)
    /\ filters.max_rank.some => ~(record.opening_rank > filters.max_rank.v)

\* the rank-range predicates of matches_filters
rank_range_matches(record, filters) ==
    /\ filters.min_rank.some => ~(record.opening_rank < filters.min_rank.v)
    /\ filters.max_rank.some => ~(record.closing_rank > filters.max_rank.v)

\* a mutant of matches_filters: the first predicate present decides alone
matches_filters_first_present_decides(record, filters) ==
    IF filters.year.some THEN record.year = filters.year.v
    ELSE IF filters.round.some THEN record.round = filters.round.v
    ELSE IF filters.state.some THEN text_matches(record.state, filters.state.v)
    ELSE IF filters.course.some THEN text_matches(record.course_name, filters.course.v)
    ELSE IF filters.college.some THEN text_matches(record.college_name, filters.college.v)
    ELSE IF filters.min_rank.some THEN ~(record.opening_rank < filters.min_rank.v)
    ELSE IF filters.max_rank.some THEN ~(record.closing_rank > filters.max_rank.v)
    ELSE IF filters.category.some THEN text_matches(record.category, filters.category.v)
    ELSE IF filters.counselling_body.some
         THEN text_matches(record.counselling_body, filters.counselling_body.v)
    ELSE IF filters.level.some THEN text_matches(record.level, filters.level.v)
    ELSE IF filters.stream.some THEN text_matches(record.stream, filters.stream.v)
    ELSE TRUE

\* DataProcessor::matches_filters: the first predicate that is present and
\* fails returns false
matches_filters(record, filters) ==
    /\ filters.year.some => ~(record.year # filters.year.v)
    /\ filters.round.some => ~(record.round # filters.round.v)
    /\ filters.state.some => text_matches(record.state, filters.state.v)
    /\ filters.course.some => text_matches(record.course_name, filters.course.v)
    /\ filters.college.some => text_matches(record.college_name, filters.college.v)
    /\ rank_range_matches(record, filters)
    /\ filters.category.some => text_matches(record.category, filters.category.v)
    /\ filters.counselling_body.some =>
           text_matches(record.counselling_body, filters.counselling_body.v)
    /\ filters.level.some => text_matches(record.level, filters.level.v)
    /\ filters.stream.some => text_matches(record.stream, filters.stream.v)

\* DataProcessor::update_average_processing_time
update_average_processing_time(self) ==
    IF self.processing_times # <<>>
    THEN [self EXCEPT !.stats.average_processing_time = Average(self.processing_times)]
    ELSE self

\* DataProcessor::update_average_search_time
update_average_search_time(self) ==
    IF self.search_times # <<>>
    THEN [self EXCEPT !.stats.average_search_time = Average(self.search_times)]
    ELSE self

\* a mutant of ParMapProcessRecord: results gathered in completion order, last first
ParMapProcessRecord_completion_order(records) ==
    [i \in 1..Len(records) |-> process_record(records[Len(records) + 1 - i])]

\* records.par_iter().map(process_record).collect(): an indexed parallel map,
\* gathered by position
ParMapProcessRecord(records) == [i \in 1..Len(records) |-> process_record(records[i])]

\* a mutant of DataProcessor_process_cutoff_data: objects are appended as they
\* decode, so a payload that fails at its last object leaves the earlier ones stored
DataProcessor_process_cutoff_data_appends_while_decoding(self, json_data, t) ==
    LET n == IF json_data.wf /\ json_data.items # <<>>
                  /\ \A i \in 1..(Len(json_data.items) - 1) : DecodableRecord(json_data.items[i])
             THEN Len(json_data.items) - 1 ELSE 0
        decoded == DecodeRecords(json_data)
        records == IF decoded.ok THEN decoded.val
                   ELSE [i \in 1..n |-> json_data.items[i].fields]
        s1 == [self EXCEPT !.records = self.records \o ParMapProcessRecord(records)]
    IN  IF ~decoded.ok THEN [self |-> s1, ret |-> Err("decode")]
        ELSE
          LET s2 == [s1 EXCEPT
                        !.stats.total_records_processed = @ + Len(records),
                        !.stats.total_records_indexed = Len(s1.records),
                        !.processing_times = Append(@, t)]
              s3 == update_average_processing_time(s2)
          IN  [self |-> s3, ret |-> Ok(EncodeRecords(s3.records))]

\* a mutant of DataProcessor_process_cutoff_data: the records processed counter
\* is set to the length of the payload, not raised by it
DataProcessor_process_cutoff_data_counts_last_payload(self, json_data, t) ==
    LET decoded == DecodeRecords(json_data)
    IN  IF ~decoded.ok THEN [self |-> self, ret |-> Err("decode")]
        ELSE
          LET records == decoded.val
              processed_records == ParMapProcessRecord(records)
              s1 == [self EXCEPT !.records = self.records \o processed_records]
              s2 == [s1 EXCEPT
                        !.stats.total_records_processed = Len(records),
                        !.stats.total_records_indexed = Len(s1.records),
                        !.processing_times = Append(@, t)]
              s3 == update_average_processing_time(s2)
          IN  [self |-> s3, ret |-> Ok(EncodeRecords(s3.records))]

\* DataProcessor::process_cutoff_data; t is the elapsed time it measures.
\* Yields the engine afterwards and the value returned.
DataProcessor_process_cutoff_data(self, json_data, t) ==
    LET decoded == DecodeRecords(json_data)
    IN  IF ~decoded.ok THEN [self |-> self, ret |-> Err("decode")]
        ELSE
          LET records == decoded.val
              processed_records == ParMapProcessRecord(records)
              s1 == [self EXCEPT !.records = self.records \o processed_records]
              s2 == [s1 EXCEPT
                        !.stats.total_records_processed = @ + Len(records),
                        !.stats.total_records_indexed = Len(s1.records),
                        !.processing_times = Append(@, t)]
              s3 == update_average_processing_time(s2)
          IN  [self |-> s3, ret |-> Ok(EncodeRecords(s3.records))]

\* a mutant of OpeningRankLess: equal ranks count as less
OpeningRankLess_or_equal(a, b) == a.opening_rank <= b.opening_rank

\* the order sort_by_key(|record| record.opening_rank) sorts by
OpeningRankLess(a, b) == a.opening_rank < b.opening_rank

\* DataProcessor::search_cutoffs; t is the elapsed time it measures
DataProcessor_search_cutoffs(self, filters_json, limit, t) ==
    LET decoded == DecodeFilters(filters_json)
    IN  IF ~decoded.ok THEN [self |-> self, ret |-> Err("decode")]
        ELSE
          LET filters == decoded.val
              filtered_records ==
                  FilterSeq(self.records,
                            [i \in 1..Len(self.records) |->
                                matches_filters(self.records[i], filters)])
              sorted_records ==
                  Sorted(filtered_records,
                         [i \in 1..Len(filtered_records) |->
                            [j \in 1..Len(filtered_records) |->
                                OpeningRankLess(filtered_records[i], filtered_records[j])]])
              results == Take(sorted_records, limit)
              s1 == [self EXCEPT
                        !.stats.total_searches_performed = @ + 1,
                        !.search_times = Append(@, t)]
              s2 == update_average_search_time(s1)
          IN  [self |-> s2, ret |-> Ok(EncodeRecords(results))]

\* DataProcessor::get_stats
DataProcessor_get_stats(self) == self.stats

\* DataProcessor::clear_data
DataProcessor_clear_data(self) ==
    [ records |-> <<>>, stats |-> DataProcessorStatsZero,
      processing_times |-> <<>>, search_times |-> <<>> ]

(***************************************************************************)
(* f32 arithmetic (IEEE 754 binary32, round to nearest, ties to even), as  *)
(* the f32 operators of vector_search.rs compute.  A value is              *)
(*   [k |-> "fin", s, m, e]   s * m * 2^e with 2^23 <= m < 2^24, or m = 0  *)
(*   [k |-> "inf", s, ...]    an infinity                                  *)
(*   [k |-> "nan", ...]       a NaN                                        *)
(*   [k |-> "sub", ...]       a result below the normal range, which the   *)
(*                            model does not compute (never reached)       *)
(* The sign of a zero is not kept: -0.0 and 0.0 compare equal in the code. *)
(* Products and sums wider than 31 bits are kept as hi * 2^24 + lo.        *)
(***************************************************************************)
F32(s, m, e) == [k |-> "fin", s |-> s, m |-> m, e |-> e]
F32Zero == [k |-> "fin", s |-> 1, m |-> 0, e |-> 0]
F32NaN == [k |-> "nan", s |-> 1, m |-> 0, e |-> 0]
F32Inf(s) == [k |-> "inf", s |-> s, m |-> 0, e |-> 0]
F32Sub == [k |-> "sub", s |-> 1, m |-> 0, e |-> 0]

IsNaN(a) == a.k = "nan"
IsZero(a) == a.k = "fin" /\ a.m = 0

\* the number of binary digits of n, for 0 <= n < 2^31
BitLen(n) ==
    IF n = 0 THEN 0 ELSE CHOOSE k \in 1..31 : 2^(k - 1) <= n /\ (k = 31 \/ n < 2^k)

\* s * (hi * 2^24 + lo) * 2^e with d digits to cut off (d <= 0: none),
\* rounded to 24 significant bits
RoundAt(s, hi, lo, e, sticky, d) ==
    LET mant == IF d <= 0 THEN lo * 2^(0 - d)
                ELSE IF d <= 24 THEN hi * 2^(24 - d) + lo \div 2^d
                ELSE hi \div 2^(d - 24)
        \* the part cut off, compared with half a unit of the last place
        remHi == IF d > 24 THEN hi % 2^(d - 24) ELSE 0
        remLo == IF d <= 0 THEN 0 ELSE IF d <= 24 THEN lo % 2^d ELSE lo
        halfHi == IF d > 24 THEN 2^(d - 25) ELSE 0
        halfLo == IF d <= 0 THEN 1 ELSE IF d <= 24 THEN 2^(d - 1) ELSE 0
        above == remHi > halfHi \/ (remHi = halfHi /\ remLo > halfLo)
        tie == d > 0 /\ remHi = halfHi /\ remLo = halfLo
        up == d > 0 /\ (above \/ (tie /\ (sticky \/ mant % 2 = 1)))
    IN  Only({ IF m1 = 2^24
               THEN (IF e + d + 24 > 127 THEN F32Inf(s)
                     ELSE IF e + d + 24 < -126 THEN F32Sub
                     ELSE F32(s, 2^23, e + d + 1))
               ELSE (IF e + d + 23 > 127 THEN F32Inf(s)
                     ELSE IF e + d + 23 < -126 THEN F32Sub
                     ELSE F32(s, m1, e + d))
               : m1 \in {IF up THEN mant + 1 ELSE mant} })

\* s * (hi * 2^24 + lo) * 2^e, rounded to 24 significant bits; sticky says
\* that the exact value lies strictly above the one given
RoundF32(s, hi, lo, e, sticky) ==
    Only({ IF h = 0 /\ l = 0 THEN F32Zero
           ELSE Only({ RoundAt(s, h, l, e, sticky, d)
                       : d \in {(IF h = 0 THEN BitLen(l) ELSE 24 + BitLen(h)) - 24} })
           : h \in {hi}, l \in {lo} })

\* an integer of magnitude below 2^24 as f32 (exact)
F32FromInt(n) ==
    IF n = 0 THEN F32Zero
    ELSE RoundF32(IF n < 0 THEN -1 ELSE 1, 0, IF n < 0 THEN 0 - n ELSE n, 0, FALSE)

\* x * y
F32Mul(x, y) ==
    Only({ IF a.k = "sub" \/ b.k = "sub" THEN F32Sub
           ELSE IF IsNaN(a) \/ IsNaN(b) THEN F32NaN
           ELSE IF a.k = "inf" \/ b.k = "inf"
                THEN (IF IsZero(a) \/ IsZero(b) THEN F32NaN ELSE F32Inf(a.s * b.s))
           ELSE IF IsZero(a) \/ IsZero(b) THEN F32Zero
           ELSE
             LET a1 == a.m \div 4096   a0 == a.m % 4096
                 b1 == b.m \div 4096   b0 == b.m % 4096
                 cross == a1 * b0 + a0 * b1
                 low == (cross % 4096) * 4096 + a0 * b0
                 hi == a1 * b1 + cross \div 4096 + low \div 2^24
             IN  RoundF32(a.s * b.s, hi, low % 2^24, a.e + b.e, FALSE)
           : a \in {x}, b \in {y} })

\* x + y for finite x and y that are not zero, x of the larger magnitude
AddAligned(x, y) ==
    LET d == x.e - y.e
        xHi == IF d <= 24 THEN x.m \div 2^(24 - d) ELSE x.m * 2^(d - 24)
        xLo == IF d <= 24 THEN (x.m % 2^(24 - d)) * 2^d ELSE 0
        sumLo == xLo + y.m
        difLo == xLo - y.m
    IN  IF d > 26 THEN x
        ELSE IF x.s = y.s
             THEN RoundF32(x.s, xHi + sumLo \div 2^24, sumLo % 2^24, y.e, FALSE)
        ELSE IF difLo >= 0 THEN RoundF32(x.s, xHi, difLo, y.e, FALSE)
        ELSE RoundF32(x.s, xHi - 1, difLo + 2^24, y.e, FALSE)

\* x + y
F32Add(x, y) ==
    Only({ IF a.k = "sub" \/ b.k = "sub" THEN F32Sub
           ELSE IF IsNaN(a) \/ IsNaN(b) THEN F32NaN
           ELSE IF a.k = "inf" /\ b.k = "inf" THEN (IF a.s = b.s THEN a ELSE F32NaN)
           ELSE IF a.k = "inf" THEN a
           ELSE IF b.k = "inf" THEN b
           ELSE IF IsZero(a) THEN b
           ELSE IF IsZero(b) THEN a
           ELSE IF a.e > b.e \/ (a.e = b.e /\ a.m >= b.m) THEN AddAligned(a, b)
           ELSE AddAligned(b, a)
           : a \in {x}, b \in {y} })

\* the quotient bits of n / d after `steps` more doublings: <<quotient, remainder>>
RECURSIVE LongDivide(_, _, _, _)
LongDivide(q, r, d, steps) ==
    IF steps = 0 THEN <<q, r>>
    ELSE Only({ LongDivide(qr[1], qr[2], d, steps - 1)
                : qr \in {IF 2 * r >= d THEN <<2 * q + 1, 2 * r - d>> ELSE <<2 * q, 2 * r>>} })

\* x / y
F32Div(x, y) ==
    Only({ IF a.k = "sub" \/ b.k = "sub" THEN F32Sub
           ELSE IF IsNaN(a) \/ IsNaN(b) THEN F32NaN
           ELSE IF a.k = "inf" THEN (IF b.k = "inf" THEN F32NaN ELSE F32Inf(a.s * b.s))
           ELSE IF b.k = "inf" THEN F32Zero
           ELSE IF IsZero(b) THEN (IF IsZero(a) THEN F32NaN ELSE F32Inf(a.s * b.s))
           ELSE IF IsZero(a) THEN F32Zero
           ELSE Only({ RoundF32(a.s * b.s, qr[1] \div 2^24, qr[1] % 2^24,
                                a.e - b.e - 26, qr[2] # 0)
                       : qr \in {LongDivide(a.m \div b.m, a.m % b.m, b.m, 26)} })
           : a \in {x}, b \in {y} })

\* the integer square root of m * 2^k, two bits of the radicand at a time from
\* bit 53 down: <<root, remainder>>
RECURSIVE SqrtDigits(_, _, _, _, _)
SqrtDigits(m, k, p, root, rem) ==
    IF p < 0 THEN <<root, rem>>
    ELSE
      LET pair == IF p >= k THEN (m \div 2^(p - k)) % 4
                  ELSE IF p = k - 1 THEN 2 * (m % 2)
                  ELSE 0
      IN  Only({ SqrtDigits(m, k, p - 2, rr[1], rr[2])
                 : rr \in {IF 4 * rem + pair >= 4 * root + 1
                           THEN <<2 * root + 1, 4 * rem + pair - (4 * root + 1)>>
                           ELSE <<2 * root, 4 * rem + pair>>} })

\* x.sqrt()
F32Sqrt(x) ==
    Only({ IF a.k = "sub" THEN F32Sub
           ELSE IF IsNaN(a) THEN F32NaN
           ELSE IF IsZero(a) THEN F32Zero
           ELSE IF a.s < 0 THEN F32NaN
           ELSE IF a.k = "inf" THEN a
           ELSE Only({ RoundF32(1, rr[1] \div 2^24, rr[1] % 2^24,
                                (a.e - (IF a.e % 2 = 0 THEN 30 ELSE 29)) \div 2, rr[2] # 0)
                       : rr \in {SqrtDigits(a.m, IF a.e % 2 = 0 THEN 30 ELSE 29, 52, 0, 0)} })
           : a \in {x} })

\* finite and infinite values on one scale: sign, then magnitude
Magnitude(a) ==
    IF a.k = "inf" THEN <<1000, 0>> ELSE IF a.m = 0 THEN <<-1000, 0>> ELSE <<a.e, a.m>>
Sign(a) == IF IsZero(a) THEN 0 ELSE a.s

\* x < y; false when either is NaN
F32Less(x, y) ==
    Only({ /\ ~IsNaN(a) /\ ~IsNaN(b)
           /\ \/ Sign(a) < Sign(b)
              \/ /\ Sign(a) = Sign(b) /\ Sign(a) # 0
                 /\ Only({ IF Sign(a) = 1
                           THEN ma[1] < mb[1] \/ (ma[1] = mb[1] /\ ma[2] < mb[2])
                           ELSE mb[1] < ma[1] \/ (mb[1] = ma[1] /\ mb[2] < ma[2])
                           : ma \in {Magnitude(a)}, mb \in {Magnitude(b)} })
           : a \in {x}, b \in {y} })

\* x == y; false when either is NaN
F32Eq(x, y) ==
    Only({ ~IsNaN(a) /\ ~IsNaN(b) /\ ~F32Less(a, b) /\ ~F32Less(b, a) : a \in {x}, b \in {y} })

(***************************************************************************)
(* VectorSearchProcessor (vector_search.rs).  A HashMap<String, T> is a    *)
(* function from the identifiers of the model to Option<T>; a metadata map *)
(* is its set of <<key, value>> pairs; the order a HashMap is iterated in  *)
(* is an input of the search.                                              *)
(***************************************************************************)
IdCatalogue == <<"x", "y", "z", "w">>
IdUniverse == {IdCatalogue[i] : i \in 1..Len(IdCatalogue)}

NoneVec == [some |-> FALSE, v |-> <<>>]
NoneMeta == [some |-> FALSE, v |-> {}]

VectorSearchStatsZero ==
    [ total_searches |-> 0, total_embeddings_generated |-> 0,
      average_search_time |-> ZeroAverage, average_embedding_time |-> ZeroAverage,
      total_vectors_indexed |-> 0 ]

\* VectorSearchProcessor::new
VectorSearchProcessor_new ==
    [ vectors |-> [id \in IdUniverse |-> NoneVec],
      metadata |-> [id \in IdUniverse |-> NoneMeta],
      stats |-> VectorSearchStatsZero,
      search_times |-> <<>>, embedding_times |-> <<>> ]

\* the keys of a HashMap
Keys(map) == {id \in DOMAIN map : map[id].some}

\* a mutant of add_vector: an identifier already stored is not counted again
VectorSearchProcessor_add_vector_counts_new_only(self, id, vector, metadata) ==
    [self EXCEPT
        !.vectors[id] = Some(vector),
        !.metadata[id] = Some(metadata),
        !.stats.total_vectors_indexed = IF self.vectors[id].some THEN @ ELSE @ + 1]

\* VectorSearchProcessor::add_vector
VectorSearchProcessor_add_vector(self, id, vector, metadata) ==
    [self EXCEPT
        !.vectors[id] = Some(vector),
        !.metadata[id] = Some(metadata),
        !.stats.total_vectors_indexed = @ + 1]

\* a mutant of cosine_similarity: the norms are not compared with zero
cosine_similarity_divides_by_zero_norm(a, b) ==
    IF Len(a) # Len(b) THEN F32Zero
    ELSE
      LET dot_product[i \in 0..Len(a)] ==
              IF i = 0 THEN F32Zero ELSE F32Add(dot_product[i - 1], F32Mul(a[i], b[i]))
          norm_a[i \in 0..Len(a)] ==
              IF i = 0 THEN F32Zero ELSE F32Add(norm_a[i - 1], F32Mul(a[i], a[i]))
          norm_b[i \in 0..Len(a)] ==
              IF i = 0 THEN F32Zero ELSE F32Add(norm_b[i - 1], F32Mul(b[i], b[i]))
      IN  Only({ F32Div(dot, F32Mul(F32Sqrt(na), F32Sqrt(nb)))
                 : dot \in {dot_product[Len(a)]}, na \in {norm_a[Len(a)]},
                   nb \in {norm_b[Len(a)]} })

\* VectorSearchProcessor::cosine_similarity
cosine_similarity(a, b) ==
    IF Len(a) # Len(b) THEN F32Zero
    ELSE
      LET dot_product[i \in 0..Len(a)] ==
              IF i = 0 THEN F32Zero ELSE F32Add(dot_product[i - 1], F32Mul(a[i], b[i]))
          norm_a[i \in 0..Len(a)] ==
              IF i = 0 THEN F32Zero ELSE F32Add(norm_a[i - 1], F32Mul(a[i], a[i]))
          norm_b[i \in 0..Len(a)] ==
              IF i = 0 THEN F32Zero ELSE F32Add(norm_b[i - 1], F32Mul(b[i], b[i]))
      IN  Only({ IF F32Eq(na, F32Zero) \/ F32Eq(nb, F32Zero) THEN F32Zero
                 ELSE F32Div(dot, F32Mul(F32Sqrt(na), F32Sqrt(nb)))
                 : dot \in {dot_product[Len(a)]}, na \in {norm_a[Len(a)]},
                   nb \in {norm_b[Len(a)]} })

\* serde_json's f32: a number that is not finite is written as null
JsonNull == [k |-> "null", s |-> 1, m |-> 0, e |-> 0]
EncodeF32(x) == IF x.k = "fin" THEN x ELSE JsonNull

\* serde_json::to_string(&Vec<SearchResult>)
EncodeResults(results) ==
    [i \in 1..Len(results) |->
        [ id |-> results[i].id, similarity |-> EncodeF32(results[i].similarity),
          metadata |-> results[i].metadata ]]

\* a mutant of SimilarityLess: ascending instead of descending
SimilarityLess_ascending(a, b) == F32Less(a.similarity, b.similarity)

\* the order of sort_by(|a, b| b.similarity.partial_cmp(&a.similarity)
\* .unwrap_or(Equal)): a sorts before b when b.similarity < a.similarity
SimilarityLess(a, b) == F32Less(b.similarity, a.similarity)

\* VectorSearchProcessor::update_average_search_time
VectorSearchProcessor_update_average_search_time(self) ==
    IF self.search_times # <<>>
    THEN [self EXCEPT !.stats.average_search_time = Average(self.search_times)]
    ELSE self

\* VectorSearchProcessor::update_average_embedding_time
update_average_embedding_time(self) ==
    IF self.embedding_times # <<>>
    THEN [self EXCEPT !.stats.average_embedding_time = Average(self.embedding_times)]
    ELSE self

\* results.sort_by(..): the comparator's answers for the results pushed
SimilarityOrder(pushed) ==
    [i \in 1..Len(pushed) |-> [j \in 1..Len(pushed) |-> SimilarityLess(pushed[i], pushed[j])]]

\* a mutant of search_by_similarity: the searches counter is raised by the
\* number of results
VectorSearchProcessor_search_by_similarity_counts_results(self, query_vector, limit, order, t) ==
    LET pushed ==
            [i \in 1..Len(order) |->
                [ id |-> order[i],
                  similarity |-> cosine_similarity(query_vector, self.vectors[order[i]].v),
                  metadata |-> IF self.metadata[order[i]].some
                               THEN self.metadata[order[i]].v ELSE {} ]]
        results ==
            Only({ Take(Sorted(p, SimilarityOrder(p)), limit)
                   : p \in {SubSeq(pushed, 1, Len(order))} })
        s1 == [self EXCEPT !.stats.total_searches = @ + Len(results),
                           !.search_times = Append(@, t)]
        s2 == VectorSearchProcessor_update_average_search_time(s1)
    IN  [self |-> s2, ret |-> Ok(Only({EncodeResults(r) : r \in {results}}))]

\* VectorSearchProcessor::search_by_similarity; order is the order in which
\* the HashMap yields its keys, t the elapsed time measured
VectorSearchProcessor_search_by_similarity(self, query_vector, limit, order, t) ==
    LET pushed ==
            [i \in 1..Len(order) |->
                [ id |-> order[i],
                  similarity |-> cosine_similarity(query_vector, self.vectors[order[i]].v),
                  metadata |-> IF self.metadata[order[i]].some
                               THEN self.metadata[order[i]].v ELSE {} ]]
        results ==
            Only({ Take(Sorted(p, SimilarityOrder(p)), limit)
                   : p \in {SubSeq(pushed, 1, Len(order))} })
        s1 == [self EXCEPT !.stats.total_searches = @ + 1,
                           !.search_times = Append(@, t)]
        s2 == VectorSearchProcessor_update_average_search_time(s1)
    IN  [self |-> s2, ret |-> Ok(Only({EncodeResults(r) : r \in {results}}))]

\* the orders in which a HashMap with these keys may be iterated
IterationOrders(keys) ==
    {o \in [1..Cardinality(keys) -> keys] : \A i, j \in DOMAIN o : i # j => o[i] # o[j]}

(***************************************************************************)
(* The embedding generator.  A u32 is kept as hi * 2^16 + lo.              *)
(***************************************************************************)
EmbeddingSize == 384

AsciiLower ==
    << "a", "b", "c", "d", "e", "f", "g", "h", "i", "j", "k", "l", "m",
       "n", "o", "p", "q", "r", "s", "t", "u", "v", "w", "x", "y", "z" >>

\* the UTF-8 byte of a letter
Byte(c) ==
    LET i == CHOOSE j \in 1..26 : AsciiLower[j] = LowerChar(c)
    IN  IF c = LowerChar(c) THEN 96 + i ELSE 64 + i

IsWhitespace(c) == c = " "

\* str::split_whitespace: the maximal runs of characters that are not whitespace
RECURSIVE SplitFrom(_, _, _, _)
SplitFrom(s, i, word, words) ==
    IF i > Len(s) THEN (IF word = <<>> THEN words ELSE Append(words, word))
    ELSE IF IsWhitespace(s[i])
         THEN SplitFrom(s, i + 1, <<>>, IF word = <<>> THEN words ELSE Append(words, word))
    ELSE SplitFrom(s, i + 1, Append(word, s[i]), words)

split_whitespace(s) == SplitFrom(s, 1, <<>>, <<>>)

U32Zero == [hi |-> 0, lo |-> 0]

\* a mutant of U32Mul31Add: the arithmetic saturates at u32::MAX
U32Mul31Add_saturating(h, byte) ==
    LET lo == h.lo * 31 + byte
        hi == h.hi * 31 + lo \div 65536
    IN  IF hi >= 65536 THEN [hi |-> 65535, lo |-> 65535]
        ELSE [hi |-> hi, lo |-> lo % 65536]

\* hash.wrapping_mul(31).wrapping_add(byte)
U32Mul31Add(h, byte) ==
    LET lo == h.lo * 31 + byte
        hi == h.hi * 31 + lo \div 65536
    IN  [hi |-> hi % 65536, lo |-> lo % 65536]

\* hash % 384, with 2^16 = 170 * 384 + 256
U32Mod384(h) == ((h.hi % EmbeddingSize) * 256 + h.lo) % EmbeddingSize

\* VectorSearchProcessor::simple_hash
simple_hash(word) ==
    LET hash[i \in 0..Len(word)] ==
            IF i = 0 THEN U32Zero ELSE U32Mul31Add(hash[i - 1], Byte(word[i]))
    IN  hash[Len(word)]

\* embedding.iter().map(|x| x * x).sum::<f32>().sqrt(): the left-to-right sum
\* of squares over all the slots.  A slot holding 0 adds 0 * 0 and s + 0 = s, so
\* the fold visits the occupied slots only, in slot order.
EmbeddingNorm(embedding) ==
    LET occupied == {i \in 1..EmbeddingSize : ~IsZero(embedding[i])}
        slot(k) == CHOOSE i \in occupied : Cardinality({j \in occupied : j < i}) = k - 1
        squares[k \in 0..Cardinality(occupied)] ==
            IF k = 0 THEN F32Zero
            ELSE F32Add(squares[k - 1], F32Mul(embedding[slot(k)], embedding[slot(k)]))
    IN  F32Sqrt(squares[Cardinality(occupied)])

\* VectorSearchProcessor::simple_text_embedding; slot i of the code is slot
\* i + 1 here
simple_text_embedding(text) ==
    LET text_lower == to_lowercase(text)
        words == split_whitespace(text_lower)
        weight == F32Div(F32FromInt(1), F32FromInt(Len(words)))
        added[n \in 0..Len(words)] ==
            IF n = 0 THEN [i \in 1..EmbeddingSize |-> F32Zero]
            ELSE LET index == U32Mod384(simple_hash(words[n]))
                 IN  [added[n - 1] EXCEPT ![index + 1] = F32Add(@, weight)]
    IN  Only({ Only({ IF F32Less(F32Zero, norm)
                      THEN [i \in 1..EmbeddingSize |-> F32Div(embedding[i], norm)]
                      ELSE embedding
                      : norm \in {EmbeddingNorm(embedding)} })
               : embedding \in {added[Len(words)]} })

\* a mutant of generate_embedding: an engine that has generated an embedding
\* before answers with the all-zero vector
VectorSearchProcessor_generate_embedding_first_call_only(self, text, t) ==
    LET embedding == IF self.stats.total_embeddings_generated = 0
                     THEN simple_text_embedding(text)
                     ELSE [i \in 1..EmbeddingSize |-> F32Zero]
        s1 == [self EXCEPT !.stats.total_embeddings_generated = @ + 1,
                           !.embedding_times = Append(@, t)]
        s2 == update_average_embedding_time(s1)
    IN  [self |-> s2, ret |-> Ok(embedding)]

\* VectorSearchProcessor::generate_embedding; t is the elapsed time measured
VectorSearchProcessor_generate_embedding(self, text, t) ==
    LET embedding == simple_text_embedding(text)
        s1 == [self EXCEPT !.stats.total_embeddings_generated = @ + 1,
                           !.embedding_times = Append(@, t)]
        s2 == update_average_embedding_time(s1)
    IN  [self |-> s2, ret |-> Ok(embedding)]

\* VectorSearchProcessor::get_stats
VectorSearchProcessor_get_stats(self) == self.stats

\* a mutant of clear_data: the embedding latency samples are not cleared
VectorSearchProcessor_clear_data_keeps_samples(self) ==
    [ vectors |-> [id \in IdUniverse |-> NoneVec],
      metadata |-> [id \in IdUniverse |-> NoneMeta],
      stats |-> VectorSearchStatsZero,
      search_times |-> <<>>, embedding_times |-> self.embedding_times ]

\* VectorSearchProcessor::clear_data
VectorSearchProcessor_clear_data(self) ==
    [ vectors |-> [id \in IdUniverse |-> NoneVec],
      metadata |-> [id \in IdUniverse |-> NoneMeta],
      stats |-> VectorSearchStatsZero,
      search_times |-> <<>>, embedding_times |-> <<>> ]

(***************************************************************************)
(* MemoryManager (memory_manager.rs)                                       *)
(***************************************************************************)
\* the identifiers and sizes the model allocates
Labels == {"x", "y"}
Sizes == {1, 2}

\* js_sys::Date::now()
DateNow == {5}

MemoryStatsZero ==
    [ used_memory |-> 0, total_memory |-> 0, available_memory |-> 0,
      memory_pressure |-> ZeroAverage, gc_count |-> 0, last_gc_time |-> 0,
      allocation_count |-> 0, deallocation_count |-> 0 ]

\* MemoryManager::new
MemoryManager_new ==
    [ stats |-> MemoryStatsZero, allocations |-> [l \in Labels |-> NoneNum] ]

\* used_memory as f64 / total_memory as f64, kept as a fraction in lowest terms
Fraction(n, d) == [n |-> n \div Gcd(n, d), d |-> d \div Gcd(n, d)]

\* u64::saturating_sub
saturating_sub(a, b) == IF a >= b THEN a - b ELSE 0

\* MemoryManager::update_memory_pressure
update_memory_pressure(self) ==
    LET pressure == IF self.stats.total_memory > 0
                    THEN Fraction(self.stats.used_memory, self.stats.total_memory)
                    ELSE ZeroAverage
    IN  [self EXCEPT
            !.stats.memory_pressure = pressure,
            !.stats.available_memory =
                saturating_sub(self.stats.total_memory, self.stats.used_memory)]

\* MemoryManager::allocate
MemoryManager_allocate(self, identifier, size) ==
    update_memory_pressure(
        [self EXCEPT
            !.allocations[identifier] = Some(size),
            !.stats.used_memory = @ + size,
            !.stats.allocation_count = @ + 1])

\* MemoryManager::deallocate
MemoryManager_deallocate(self, identifier) ==
    IF self.allocations[identifier].some
    THEN [ self |-> update_memory_pressure(
                       [self EXCEPT
                           !.allocations[identifier] = NoneNum,
                           !.stats.used_memory =
                               saturating_sub(@, self.allocations[identifier].v),
                           !.stats.deallocation_count = @ + 1]),
           ret |-> self.allocations[identifier] ]
    ELSE [ self |-> self, ret |-> NoneNum ]

\* MemoryManager::clear_all
MemoryManager_clear_all(self, now) ==
    update_memory_pressure(
        [self EXCEPT
            !.allocations = [l \in Labels |-> NoneNum],
            !.stats.used_memory = 0,
            !.stats.gc_count = @ + 1,
            !.stats.last_gc_time = now])

\* MemoryManager::get_allocation_count
get_allocation_count(self) == Cardinality(Keys(self.allocations))

\* MemoryManager::get_total_allocated_size
RECURSIVE SumSizes(_, _)
SumSizes(allocations, labels) ==
    IF labels = {} THEN 0
    ELSE LET l == CHOOSE x \in labels : TRUE
         IN  allocations[l].v + SumSizes(allocations, labels \ {l})

get_total_allocated_size(self) == SumSizes(self.allocations, Keys(self.allocations))

(***************************************************************************)
(* AnalyticsProcessor (analytics.rs)                                       *)
(***************************************************************************)
\* u32::to_string
RECURSIVE to_string(_)
to_string(n) ==
    LET digit == << "0", "1", "2", "3", "4", "5", "6", "7", "8", "9" >>[(n % 10) + 1]
    IN  IF n < 10 THEN << digit >> ELSE to_string(n \div 10) \o << digit >>

\* AnalyticsProcessor::get_rank_range
get_rank_range(rank) ==
    IF rank >= 1 /\ rank <= 100 THEN "1-100"
    ELSE IF rank >= 101 /\ rank <= 500 THEN "101-500"
    ELSE IF rank >= 501 /\ rank <= 1000 THEN "501-1000"
    ELSE IF rank >= 1001 /\ rank <= 5000 THEN "1001-5000"
    ELSE IF rank >= 5001 /\ rank <= 10000 THEN "5001-10000"
    ELSE IF rank >= 10001 /\ rank <= 50000 THEN "10001-50000"
    ELSE IF rank >= 50001 /\ rank <= 100000 THEN "50001-100000"
    ELSE "100000+"

\* *map.entry(key).or_insert(0) += 1 for the key of each record in turn
Distribution(keys) ==
    [ k \in {keys[i] : i \in 1..Len(keys)} |->
          Cardinality({i \in 1..Len(keys) : keys[i] = k}) ]

\* Vec<u32>::sort
SortedRanks(ranks) ==
    Sorted(ranks, [i \in 1..Len(ranks) |-> [j \in 1..Len(ranks) |-> ranks[i] < ranks[j]]])

\* the median of the sorted ranks
Median(ranks, total_records) ==
    IF total_records % 2 = 0
    THEN Fraction(ranks[total_records \div 2] + ranks[total_records \div 2 + 1], 2)
    ELSE Fraction(ranks[total_records \div 2 + 1], 1)

\* the report for no records
AnalyticsResultZero ==
    [ total_records |-> 0,
      average_opening_rank |-> ZeroAverage, average_closing_rank |-> ZeroAverage,
      median_opening_rank |-> ZeroAverage, median_closing_rank |-> ZeroAverage,
      min_opening_rank |-> 0, max_closing_rank |-> 0,
      rank_distribution |-> Distribution(<<>>), state_distribution |-> Distribution(<<>>),
      course_distribution |-> Distribution(<<>>),
      college_distribution |-> Distribution(<<>>),
      year_distribution |-> Distribution(<<>>), round_distribution |-> Distribution(<<>>),
      category_distribution |-> Distribution(<<>>),
      counselling_body_distribution |-> Distribution(<<>>),
      level_distribution |-> Distribution(<<>>), stream_distribution |-> Distribution(<<>>) ]

\* the report for records, of which there is at least one
AnalyticsResultOf(records) ==
    LET total_records == Len(records)
        n == 1..total_records
        opening_ranks == SortedRanks([i \in n |-> records[i].opening_rank])
        closing_ranks == SortedRanks([i \in n |-> records[i].closing_rank])
    IN  [ total_records |-> total_records,
          average_opening_rank |-> Fraction(SumSeq(opening_ranks), total_records),
          average_closing_rank |-> Fraction(SumSeq(closing_ranks), total_records),
          median_opening_rank |-> Median(opening_ranks, total_records),
          median_closing_rank |-> Median(closing_ranks, total_records),
          min_opening_rank |-> opening_ranks[1],
          max_closing_rank |-> closing_ranks[total_records],
          rank_distribution |->
              Distribution([i \in n |-> get_rank_range(records[i].opening_rank)]),
          state_distribution |-> Distribution([i \in n |-> records[i].state]),
          course_distribution |-> Distribution([i \in n |-> records[i].course_name]),
          college_distribution |-> Distribution([i \in n |-> records[i].college_name]),
          year_distribution |-> Distribution([i \in n |-> to_string(records[i].year)]),
          round_distribution |-> Distribution([i \in n |-> to_string(records[i].round)]),
          category_distribution |-> Distribution([i \in n |-> records[i].category]),
          counselling_body_distribution |->
              Distribution([i \in n |-> records[i].counselling_body]),
          level_distribution |-> Distribution([i \in n |-> records[i].level]),
          stream_distribution |-> Distribution([i \in n |-> records[i].stream]) ]

\* AnalyticsProcessor::calculate_analytics
AnalyticsProcessor_calculate_analytics(data_json) ==
    IF ~DecodeRecords(data_json).ok THEN Err("decode")
    ELSE IF DecodeRecords(data_json).val = <<>> THEN Ok(AnalyticsResultZero)
    ELSE Ok(AnalyticsResultOf(DecodeRecords(data_json).val))

(***************************************************************************)
(* CompressionProcessor (compression.rs).  An f64 of this section is kept  *)
(* as w * 2^32 + u, with w and u fractions in lowest terms, or is infinite *)
(* or not a number; 2^32 is usize::MAX + 1 of the wasm32 target.  The      *)
(* rounding of f64 is not followed.                                        *)
(***************************************************************************)
F64Of(w, u) == [kind |-> "finite", w |-> w, u |-> u]
F64Zero == F64Of(ZeroAverage, ZeroAverage)
F64Inf == [kind |-> "inf", w |-> ZeroAverage, u |-> ZeroAverage]
F64NaN == [kind |-> "nan", w |-> ZeroAverage, u |-> ZeroAverage]

FractionTimes(f, n, d) == Fraction(f.n * n, f.d * d)
FractionPlus(f, g) == Fraction(f.n * g.d + g.n * f.d, f.d * g.d)

\* x * k for a count k as f64; no x of this section is negative
F64Times(x, k) ==
    IF x.kind = "nan" THEN F64NaN
    ELSE IF x.kind = "inf" THEN (IF k = 0 THEN F64NaN ELSE F64Inf)
    ELSE F64Of(FractionTimes(x.w, k, 1), FractionTimes(x.u, k, 1))

\* x / k for a count k as f64
F64Over(x, k) ==
    IF x.kind = "nan" THEN F64NaN
    ELSE IF x.kind = "inf" THEN F64Inf
    ELSE IF k = 0 THEN (IF x = F64Zero THEN F64NaN ELSE F64Inf)
    ELSE F64Of(FractionTimes(x.w, 1, k), FractionTimes(x.u, 1, k))

\* x + y
F64Plus(x, y) ==
    IF x.kind = "nan" \/ y.kind = "nan" THEN F64NaN
    ELSE IF x.kind = "inf" \/ y.kind = "inf" THEN F64Inf
    ELSE F64Of(FractionPlus(x.w, y.w), FractionPlus(x.u, y.u))

\* (a - b) as f64 for usize a and b, where the subtraction has wrapped if a < b
wrapping_sub_as_f64(a, b) ==
    IF a >= b THEN F64Of(ZeroAverage, Fraction(a - b, 1))
    ELSE F64Of(Fraction(1, 1), Fraction(a - b, 1))

CompressionStatsZero ==
    [ total_compressions |-> 0, total_decompressions |-> 0,
      total_bytes_compressed |-> 0, total_bytes_decompressed |-> 0,
      average_compression_ratio |-> F64Zero,
      average_compression_time |-> ZeroAverage,
      average_decompression_time |-> ZeroAverage ]

\* CompressionProcessor::new
CompressionProcessor_new ==
    [ stats |-> CompressionStatsZero, compression_times |-> <<>>,
      decompression_times |-> <<>> ]

\* lz4_flex::compress_prepend_size for an input of fewer than 13 bytes, which
\* is too short to hold a match: the length as four bytes, lowest first, then
\* one block of literals (a token with the length in its high half, then the
\* input)
compress_prepend_size(data) ==
    << Len(data), 0, 0, 0 >> \o << Len(data) * 16 >> \o data

\* CompressionProcessor::update_compression_ratio
update_compression_ratio(self, new_ratio) ==
    [self EXCEPT !.stats.average_compression_ratio =
        F64Over(F64Plus(F64Times(@, self.stats.total_compressions - 1), new_ratio),
                self.stats.total_compressions)]

\* CompressionProcessor::update_average_compression_time
update_average_compression_time(self) ==
    IF self.compression_times # <<>>
    THEN [self EXCEPT !.stats.average_compression_time = Average(self.compression_times)]
    ELSE self

\* a panic: the function does not return
Panicked(message) == [ok |-> FALSE, val |-> "panic", message |-> message]

\* CompressionProcessor::compress_lz4: data.len() - compressed.len() panics
\* in a build with overflow checks and wraps in one without, when
\* compressed is the longer; t is the elapsed time
CompressionProcessor_compress_lz4(self, data, overflow_checks, t) ==
    LET compressed == compress_prepend_size(data)
        s1 == [self EXCEPT
                  !.stats.total_compressions = @ + 1,
                  !.stats.total_bytes_compressed = @ + Len(data),
                  !.compression_times = Append(@, t)]
        compression_ratio ==
            F64Times(F64Over(wrapping_sub_as_f64(Len(data), Len(compressed)), Len(data)),
                     100)
        s2 == update_compression_ratio(s1, compression_ratio)
        s3 == update_average_compression_time(s2)
    IN  IF overflow_checks /\ Len(data) < Len(compressed)
        THEN [ self |-> s1, ret |-> Panicked("attempt to subtract with overflow") ]
        ELSE [ self |-> s3, ret |-> [ok |-> TRUE, val |-> compressed, message |-> ""] ]

(***************************************************************************)
(* The boundary (lib.rs).  Each exported function locks the engine's slot, *)
(* fails when the slot is empty, and calls the engine.  call records the   *)
(* function, its argument, the two slots as the call found them, whether   *)
(* the call before it was clear_data, and what the call returned.  The     *)
(* exported functions below are whole calls, made one at a time: each      *)
(* finds every Mutex free and leaves it free.                              *)
(***************************************************************************)
\* the Mutexes of lib.rs, by the slot each guards
Guards ==
    { "MEMORY_MANAGER", "COMPRESSION_PROCESSOR", "VECTOR_SEARCH_PROCESSOR",
      "DATA_PROCESSOR", "ANALYTICS_PROCESSOR" }
Free == "free"
Callers == {"a", "b"}

\* a caller: the exported function it is in, with its arguments; the Mutex it
\* is at, counted along the function's own order; whether it waits for that
\* Mutex ("wait"), holds it ("in") or holds it with the engine half written
\* ("half"); the slot as it found it when it got the Mutex, and whether
\* another caller had left the engine in it half written
NoSlot == [some |-> FALSE, v |-> <<>>]
Idle == [op |-> "none", arg |-> <<>>, limit |-> 0, at |-> 0, stage |-> "idle",
         pre |-> NoSlot, torn |-> FALSE]

\* no Mutex is held and no caller is inside an exported function; the
\* MemoryManager is new and the slot of COMPRESSION_PROCESSOR is empty
NoCallers ==
    /\ guard = [g \in Guards |-> Free]
    /\ pc = [t \in Callers |-> Idle]
    /\ mm = MemoryManager_new
    /\ cp = [ slot |-> [some |-> FALSE, v |-> CompressionProcessor_new],
              poisoned |-> FALSE, overflow_checks |-> FALSE ]

NoCall ==
    [ op |-> "none", arg |-> <<>>, limit |-> 0,
      pre |-> [dp |-> [some |-> FALSE, v |-> DataProcessor_new],
               vs |-> [some |-> FALSE, v |-> VectorSearchProcessor_new]],
      after_clear |-> FALSE, ret |-> Err("none") ]

Called(op, arg, limit, ret) ==
    [ op |-> op, arg |-> arg, limit |-> limit, pre |-> [dp |-> dp, vs |-> vs],
      after_clear |-> (call.op = "clear_data"), ret |-> ret ]

\* Instant::elapsed in milliseconds: whatever the clock measured.  Each exported
\* function below takes Clock, the set of values the clock may show.
StoreClock == {2}

\* lib.rs init: every slot gets a new engine
init ==
    /\ dp' = Some(DataProcessor_new)
    /\ vs' = Some(VectorSearchProcessor_new)
    /\ call' = Called("init", <<>>, 0, Ok("unit"))
    /\ UNCHANGED <<guard, pc, mm, cp>>

\* lib.rs process_cutoff_data; the elapsed time is read once the payload has decoded
process_cutoff_data(json_data, Clock) ==
    /\ UNCHANGED <<vs, guard, pc, mm, cp>>
    /\ IF ~dp.some
       THEN /\ call' = Called("process_cutoff_data", json_data, 0,
                              Err("Data processor not initialized"))
            /\ UNCHANGED dp
       ELSE \E t \in (IF DecodeRecords(json_data).ok THEN Clock ELSE {0}) :
               LET r == DataProcessor_process_cutoff_data(dp.v, json_data, t)
               IN  /\ dp' = Some(r.self)
                   /\ call' = Called("process_cutoff_data", json_data, 0, r.ret)

\* lib.rs search_cutoffs; the elapsed time is read once the payload has decoded
search_cutoffs(filters_json, limit, Clock) ==
    /\ UNCHANGED <<vs, guard, pc, mm, cp>>
    /\ IF ~dp.some
       THEN /\ call' = Called("search_cutoffs", filters_json, limit,
                              Err("Data processor not initialized"))
            /\ UNCHANGED dp
       ELSE \E t \in (IF DecodeFilters(filters_json).ok THEN Clock ELSE {0}) :
               LET r == DataProcessor_search_cutoffs(dp.v, filters_json, limit, t)
               IN  /\ dp' = Some(r.self)
                   /\ call' = Called("search_cutoffs", filters_json, limit, r.ret)

\* VectorSearchProcessor::add_vector, called on the engine in the slot (lib.rs
\* exports no function for it)
add_vector(id, vector, metadata) ==
    /\ vs.some
    /\ vs' = Some(VectorSearchProcessor_add_vector(vs.v, id, vector, metadata))
    /\ call' = Called("add_vector", [id |-> id, vector |-> vector, metadata |-> metadata],
                      0, Ok("unit"))
    /\ UNCHANGED <<dp, guard, pc, mm, cp>>

\* lib.rs search_by_vector; order is the order the HashMap is iterated in
search_by_vector(query_vector, limit, Clock) ==
    /\ UNCHANGED <<dp, guard, pc, mm, cp>>
    /\ IF ~vs.some
       THEN /\ call' = Called("search_by_vector", query_vector, limit,
                              Err("Vector search processor not initialized"))
            /\ UNCHANGED vs
       ELSE \E t \in Clock, order \in IterationOrders(Keys(vs.v.vectors)) :
               LET r == VectorSearchProcessor_search_by_similarity(
                            vs.v, query_vector, limit, order, t)
               IN  /\ vs' = Some(r.self)
                   /\ call' = Called("search_by_vector", query_vector, limit, r.ret)

\* lib.rs generate_embedding
generate_embedding(text, Clock) ==
    /\ UNCHANGED <<dp, guard, pc, mm, cp>>
    /\ IF ~vs.some
       THEN /\ call' = Called("generate_embedding", text, 0,
                              Err("Vector search processor not initialized"))
            /\ UNCHANGED vs
       ELSE \E t \in Clock :
               LET r == VectorSearchProcessor_generate_embedding(vs.v, text, t)
               IN  /\ vs' = Some(r.self)
                   /\ call' = Called("generate_embedding", text, 0, r.ret)

\* lib.rs clear_data: the Record Store, then the Similarity Index (then the
\* memory manager, which holds no state of the two engines)
clear_data ==
    /\ dp' = IF dp.some THEN Some(DataProcessor_clear_data(dp.v)) ELSE dp
    /\ vs' = IF vs.some THEN Some(VectorSearchProcessor_clear_data(vs.v)) ELSE vs
    /\ call' = Called("clear_data", <<>>, 0, Ok("unit"))
    /\ UNCHANGED <<guard, pc, mm, cp>>

\* lib.rs get_performance_stats, the two engines' entries: an engine whose
\* slot is empty has no entry
get_performance_stats ==
    /\ call' = Called("get_performance_stats", <<>>, 0,
                      Ok([ vector_search |->
                             IF vs.some THEN Some(VectorSearchProcessor_get_stats(vs.v))
                             ELSE [some |-> FALSE, v |-> VectorSearchStatsZero],
                           data_processing |->
                             IF dp.some THEN Some(DataProcessor_get_stats(dp.v))
                             ELSE [some |-> FALSE, v |-> DataProcessorStatsZero] ]))
    /\ UNCHANGED <<dp, vs, guard, pc, mm, cp>>

(***************************************************************************)
(* SpecStore: ingest, search and clear on the Record Store                 *)
(***************************************************************************)
\* Payloads that decode, and payloads that do not: not an array, or an array
\* whose last object lacks a field or holds a negative rank
IngestPayloads ==
    {JsonArray(items) : items \in SeqsUpTo({JsonObject(r) : r \in StoreRecords}, MaxBatch)}
    \cup {JsonMalformed}
    \cup {JsonArray(good \o <<bad>>) :
            good \in SeqsUpTo({JsonObject(R0)}, 1),
            bad \in {JsonMissingField, JsonNegativeRank}}

StoreFilterPayloads ==
    { JsonFilter(NoFilters), JsonFilter([NoFilters EXCEPT !.min_rank = Some(300)]),
      JsonFilterMalformed, JsonFilterNegativeRank }

\* room for one more latency sample
SamplesBelow(n) == dp.some => Len(dp.v.processing_times) + Len(dp.v.search_times) < n

InitStore ==
    /\ dp = Some(DataProcessor_new)
    /\ vs = Some(VectorSearchProcessor_new)
    /\ call = NoCall
    /\ NoCallers

NextStore ==
    \/ \E json \in IngestPayloads :
          /\ SamplesBelow(MaxOps)
          /\ Len(dp.v.records) + Len(json.items) <= MaxRecords
          /\ process_cutoff_data(json, StoreClock)
    \/ \E json \in StoreFilterPayloads, limit \in 0..MaxLimit :
          /\ SamplesBelow(MaxOps)
          /\ search_cutoffs(json, limit, StoreClock)
    \/ clear_data

SpecStore == InitStore /\ [][NextStore]_vars

(***************************************************************************)
(* SpecFilter: one search, with any filter of at most two predicates, on a *)
(* store that one ingest has filled with records that differ field by      *)
(* field                                                                   *)
(***************************************************************************)
FilterPayloads ==
    {JsonFilter(f) : f \in FilterUniverse} \cup {JsonFilterMalformed, JsonFilterNegativeRank}

\* the members of a set of numbers, ascending
Ascending(S) ==
    [p \in 1..Cardinality(S) |-> CHOOSE i \in S : Cardinality({j \in S : j < i}) = p - 1]

\* the stores the specification starts from: at most MaxStored different
\* records, in catalogue order (order and repetition are SpecStore's matter)
FilterStores ==
    { [p \in 1..Cardinality(S) |-> FilterRecords[Ascending(S)[p]]] :
        S \in {T \in SUBSET (1..Len(FilterRecords)) : Cardinality(T) <= MaxStored} }

InitFilter ==
    /\ \E rs \in FilterStores :
          dp = Some(DataProcessor_process_cutoff_data(
                        DataProcessor_new, EncodeRecords(rs), 2).self)
    /\ vs = Some(VectorSearchProcessor_new)
    /\ call = NoCall
    /\ NoCallers

NextFilter ==
    \E json \in FilterPayloads, limit \in {1, Len(dp.v.records)} :
        /\ dp.v.search_times = <<>>
        /\ search_cutoffs(json, limit, StoreClock)

SpecFilter == InitFilter /\ [][NextFilter]_vars

(***************************************************************************)
(* SpecSearch: one vector search, with the HashMap iterated in any order,  *)
(* on an index that a run of add_vector calls has filled                   *)
(***************************************************************************)
One == F32FromInt(1)
Big == F32(1, 2^23, 104)        \* 2^127, a finite f32

\* stored vectors: unit vectors, a diagonal, a negative, a large finite
\* component, and a vector of another dimension
VectorCatalogue ==
    << <<One, F32Zero>>, <<F32Zero, One>>, <<One, One>>,
       <<F32FromInt(-1), F32Zero>>, <<Big, F32Zero>>, <<One>> >>

QueryUniverse == { <<One, F32Zero>>, <<F32FromInt(2), F32Zero>>, <<F32Zero, F32Zero>> }

MetadataOf(id) == { <<"college", id>> }
StaleMetadata == { <<"college", "old">>, <<"state", "goa">> }

\* the indexes the specification starts from: at most MaxVectors identifiers,
\* the first ones of the catalogue, with vectors in catalogue order (the order
\* the search meets them in is the search's input)
IndexEntries ==
    { e \in SeqsUpTo(1..Len(VectorCatalogue), Min(MaxVectors, Len(IdCatalogue))) :
        \A i, j \in 1..Len(e) : i < j => e[i] <= e[j] }

\* the index after add_vector of a first entry for the first identifier, then
\* of every entry of e
IndexOf(e) ==
    LET first == IF e = <<>> THEN VectorSearchProcessor_new
                 ELSE VectorSearchProcessor_add_vector(
                          VectorSearchProcessor_new, IdCatalogue[1],
                          VectorCatalogue[2], StaleMetadata)
        added[n \in 0..Len(e)] ==
            IF n = 0 THEN first
            ELSE VectorSearchProcessor_add_vector(
                     added[n - 1], IdCatalogue[n], VectorCatalogue[e[n]],
                     MetadataOf(IdCatalogue[n]))
    IN  added[Len(e)]

InitSearch ==
    /\ dp = Some(DataProcessor_new)
    /\ \E e \in IndexEntries : vs = Some(IndexOf(e))
    /\ call = NoCall
    /\ NoCallers

NextSearch ==
    \E q \in QueryUniverse, limit \in (0..MaxLimit) \cup {10} :
        /\ vs.v.search_times = <<>>
        /\ search_by_vector(q, limit, StoreClock)

SpecSearch == InitSearch /\ [][NextSearch]_vars

(***************************************************************************)
(* SpecCosine: one call, either cosine_similarity on any two vectors of a  *)
(* catalogue or a vector search with any of them as the query on an index  *)
(* whose vectors differ in length                                          *)
(***************************************************************************)
\* the empty vector, zero vectors, vectors of one and two components, a
\* large finite component, and components that are not finite
CosineVectors ==
    { <<>>, <<F32Zero>>, <<F32Zero, F32Zero>>, <<One>>, <<F32FromInt(-3)>>,
      <<One, F32Zero>>, <<F32Zero, One>>, <<One, One>>, <<F32FromInt(2), F32Zero>>,
      <<F32FromInt(-1), F32FromInt(2)>>, <<F32FromInt(3), F32FromInt(4)>>,
      <<Big, F32Zero>>, <<F32NaN, One>>, <<F32Inf(1), F32Zero>> }

\* an index holding vectors of two components, of one, a zero vector and
\* the empty vector
CosineIndex ==
    LET entries == << <<One, One>>, <<One>>, <<F32Zero, F32Zero>>, <<>> >>
        added[n \in 0..Len(entries)] ==
            IF n = 0 THEN VectorSearchProcessor_new
            ELSE VectorSearchProcessor_add_vector(
                     added[n - 1], IdCatalogue[n], entries[n], MetadataOf(IdCatalogue[n]))
    IN  added[Len(entries)]

\* cosine_similarity applied to a and b
cosine_similarity_call(a, b) ==
    /\ call' = Called("cosine_similarity", <<a, b>>, 0, Ok(cosine_similarity(a, b)))
    /\ UNCHANGED <<dp, vs, guard, pc, mm, cp>>

InitCosine ==
    /\ dp = Some(DataProcessor_new)
    /\ vs = Some(CosineIndex)
    /\ call = NoCall
    /\ NoCallers

NextCosine ==
    \/ \E a \in CosineVectors, b \in CosineVectors :
          call.op = "none" /\ cosine_similarity_call(a, b)
    \/ \E q \in CosineVectors :
          call.op = "none" /\ search_by_vector(q, Len(IdCatalogue), StoreClock)

SpecCosine == InitCosine /\ [][NextCosine]_vars

(***************************************************************************)
(* SpecEmbedding: one call of generate_embedding, on a text of at most     *)
(* MaxTokens words                                                         *)
(***************************************************************************)
\* words: two that hash to one slot ("a" and "cd"), one that hashes to
\* another, one long enough for the hash to pass 2^32, and capital letters
TokenCatalogue ==
    << <<"a">>, <<"c", "d">>, <<"b">>, <<"M", "e", "d", "i", "c", "a", "l">>, <<"C", "D">> >>

\* the words with a space before each
RECURSIVE JoinTokens(_)
JoinTokens(tokens) ==
    IF tokens = <<>> THEN <<>>
    ELSE <<" ">> \o TokenCatalogue[Head(tokens)] \o JoinTokens(Tail(tokens))

EmbeddingTexts ==
    { JoinTokens(tokens) : tokens \in SeqsUpTo(1..Len(TokenCatalogue), MaxTokens) }

InitEmbedding ==
    /\ dp = Some(DataProcessor_new)
    /\ vs = Some(VectorSearchProcessor_new)
    /\ call = NoCall
    /\ NoCallers

NextEmbedding ==
    \E text \in EmbeddingTexts :
        call.op = "none" /\ generate_embedding(text, StoreClock)

SpecEmbedding == InitEmbedding /\ [][NextEmbedding]_vars

(***************************************************************************)
(* SpecMemory: allocate, deallocate and clear_all on one MemoryManager     *)
(***************************************************************************)
allocate(identifier, size) ==
    /\ mm.stats.allocation_count < MaxAllocations
    /\ mm' = MemoryManager_allocate(mm, identifier, size)
    /\ call' = Called("allocate", <<identifier, size>>, 0, Ok("unit"))
    /\ UNCHANGED <<dp, vs, guard, pc, cp>>

deallocate(identifier) ==
    /\ mm' = MemoryManager_deallocate(mm, identifier).self
    /\ call' = Called("deallocate", <<identifier>>, 0,
                      Ok(MemoryManager_deallocate(mm, identifier).ret))
    /\ UNCHANGED <<dp, vs, guard, pc, cp>>

clear_all(now) ==
    /\ mm.stats.gc_count < MaxGc
    /\ mm' = MemoryManager_clear_all(mm, now)
    /\ call' = Called("clear_all", <<>>, 0, Ok("unit"))
    /\ UNCHANGED <<dp, vs, guard, pc, cp>>

InitMemory ==
    /\ dp = [some |-> FALSE, v |-> DataProcessor_new]
    /\ vs = [some |-> FALSE, v |-> VectorSearchProcessor_new]
    /\ call = NoCall
    /\ NoCallers

NextMemory ==
    \/ \E identifier \in Labels, size \in Sizes : allocate(identifier, size)
    \/ \E identifier \in Labels : deallocate(identifier)
    \/ \E now \in DateNow : clear_all(now)

SpecMemory == InitMemory /\ [][NextMemory]_vars

(***************************************************************************)
(* SpecAnalytics: one call of calculate_analytics, on a payload of at most *)
(* MaxAnalysed records                                                     *)
(***************************************************************************)
\* opening ranks at both ends of every range of get_rank_range, and 0
AnalysedRanks ==
    { 0, 1, 100, 101, 500, 501, 1000, 1001, 5000, 5001, 10000, 10001, 50000, 50001,
      100000, 100001 }

\* R0 with each of those ranks, and records that differ from R0 in the
\* closing rank, in a text field or in a number that is counted by its digits
AnalysedRecords ==
    { [R0 EXCEPT !.opening_rank = rank] : rank \in AnalysedRanks }
    \cup { RClose900, RState, RYear, RRound }

AnalyticsPayloads ==
    { JsonArray(items) :
         items \in SeqsUpTo({JsonObject(r) : r \in AnalysedRecords}, MaxAnalysed) }
    \cup { JsonMalformed }

calculate_analytics(data_json) ==
    /\ call.op = "none"
    /\ call' = Called("calculate_analytics", data_json, 0,
                      AnalyticsProcessor_calculate_analytics(data_json))
    /\ UNCHANGED <<dp, vs, guard, pc, mm, cp>>

InitAnalytics ==
    /\ dp = [some |-> FALSE, v |-> DataProcessor_new]
    /\ vs = [some |-> FALSE, v |-> VectorSearchProcessor_new]
    /\ call = NoCall
    /\ NoCallers

NextAnalytics == \E data_json \in AnalyticsPayloads : calculate_analytics(data_json)

SpecAnalytics == InitAnalytics /\ [][NextAnalytics]_vars

(***************************************************************************)
(* SpecCompression: compress_lz4 on byte sequences of at most MaxData      *)
(* bytes, before init and after it, in a build with overflow checks and in *)
(* one without                                                             *)
(***************************************************************************)
CompressedBytes == {0, 7, 255}

CompressionData == SeqsUpTo(CompressedBytes, MaxData)

\* lib.rs compress_lz4: lock().unwrap() panics on a poisoned Mutex; a panic
\* inside the engine poisons the Mutex as the guard is dropped
compress_lz4(data, Clock) ==
    /\ UNCHANGED <<dp, vs, guard, pc, mm>>
    /\ IF cp.poisoned
       THEN /\ call' = Called("compress_lz4", data, 0, Panicked("PoisonError"))
            /\ UNCHANGED cp
       ELSE IF ~cp.slot.some
       THEN /\ call' = Called("compress_lz4", data, 0,
                              [ok |-> FALSE, val |-> "Compression processor not initialized",
                               message |-> ""])
            /\ UNCHANGED cp
       ELSE /\ cp.slot.v.stats.total_compressions < MaxCompressions
            /\ \E t \in Clock :
                  LET r == CompressionProcessor_compress_lz4(cp.slot.v, data,
                                                            cp.overflow_checks, t)
                  IN  /\ cp' = [cp EXCEPT !.slot = Some(r.self),
                                          !.poisoned = (r.ret.message # "")]
                      /\ call' = Called("compress_lz4", data, 0, r.ret)

InitCompression ==
    /\ dp = [some |-> FALSE, v |-> DataProcessor_new]
    /\ vs = [some |-> FALSE, v |-> VectorSearchProcessor_new]
    /\ call = NoCall
    /\ guard = [g \in Guards |-> Free]
    /\ pc = [t \in Callers |-> Idle]
    /\ mm = MemoryManager_new
    /\ cp \in { [ slot |-> slot, poisoned |-> FALSE, overflow_checks |-> checks ] :
                   slot \in { [some |-> FALSE, v |-> CompressionProcessor_new],
                              Some(CompressionProcessor_new) },
                   checks \in BOOLEAN }

NextCompression == \E data \in CompressionData : compress_lz4(data, StoreClock)

SpecCompression == InitCompression /\ [][NextCompression]_vars

(***************************************************************************)
(* Spec: the two engines behind the boundary, from before init             *)
(***************************************************************************)
SystemIngestPayloads ==
    { JsonArray(<<JsonObject(R0)>>), JsonArray(<<JsonObject(ROpen500), JsonObject(ROpen10)>>),
      JsonMalformed }

SystemFilterPayloads == { JsonFilter(NoFilters), JsonFilterMalformed }

SystemEntries ==
    { [vector |-> VectorCatalogue[1], metadata |-> StaleMetadata],
      [vector |-> VectorCatalogue[2], metadata |-> { <<"college", "new">> }] }

SystemTexts ==
    { <<"H", "e", "l", "l", "o", " ", " ", "w", "o", "r", "l", "d">>, <<" ">>, <<>> }

\* the work the counters and sample lists of the two engines have counted
Work ==
    (IF dp.some THEN Len(dp.v.processing_times) + Len(dp.v.search_times) ELSE 0)
    + (IF vs.some THEN Len(vs.v.search_times) + Len(vs.v.embedding_times)
                       + vs.v.stats.total_vectors_indexed
       ELSE 0)

Init ==
    /\ dp = [some |-> FALSE, v |-> DataProcessor_new]
    /\ vs = [some |-> FALSE, v |-> VectorSearchProcessor_new]
    /\ call = NoCall
    /\ NoCallers

Next ==
    \/ init
    \/ \E json \in SystemIngestPayloads :
          Work < MaxCalls /\ process_cutoff_data(json, StoreClock)
    \/ \E json \in SystemFilterPayloads, limit \in {0, MaxLimit} :
          Work < MaxCalls /\ search_cutoffs(json, limit, StoreClock)
    \/ \E id \in {IdCatalogue[1], IdCatalogue[2]}, entry \in SystemEntries :
          Work < MaxCalls /\ add_vector(id, entry.vector, entry.metadata)
    \/ \E q \in {VectorCatalogue[1]}, limit \in {MaxLimit} :
          Work < MaxCalls /\ search_by_vector(q, limit, StoreClock)
    \/ \E text \in SystemTexts :
          Work < MaxCalls /\ generate_embedding(text, StoreClock)
    \/ clear_data
    \/ get_performance_stats

Spec == Init /\ [][Next]_vars

(***************************************************************************)
(* SpecGuards: callers inside the exported functions at the same time.  A  *)
(* caller takes the Mutex of a slot (Lock), writes the engine in it in two *)
(* steps where the function writes more than one field (Apply, then        *)
(* Release) and gives the Mutex back where the guard goes out of scope     *)
(* (Release), slot after slot in the order the function locks them.        *)
(***************************************************************************)
\* the Mutexes an exported function locks, in its order
GuardsOf(op) ==
    IF op = "init"
    THEN << "MEMORY_MANAGER", "COMPRESSION_PROCESSOR", "VECTOR_SEARCH_PROCESSOR",
            "DATA_PROCESSOR", "ANALYTICS_PROCESSOR" >>
    ELSE IF op \in {"process_cutoff_data", "search_cutoffs"} THEN << "DATA_PROCESSOR" >>
    ELSE IF op \in {"add_vector", "search_by_vector", "generate_embedding"}
         THEN << "VECTOR_SEARCH_PROCESSOR" >>
    ELSE IF op = "clear_data"
         THEN << "DATA_PROCESSOR", "VECTOR_SEARCH_PROCESSOR", "MEMORY_MANAGER" >>
    ELSE IF op = "get_performance_stats"
         THEN << "COMPRESSION_PROCESSOR", "VECTOR_SEARCH_PROCESSOR", "DATA_PROCESSOR" >>
    ELSE <<>>

\* the Mutex a caller inside a function is at
CurGuard(t) == GuardsOf(pc[t].op)[pc[t].at]

\* the slot behind a Mutex (the engines of the other three are not modelled)
Slot(g) ==
    IF g = "DATA_PROCESSOR" THEN dp
    ELSE IF g = "VECTOR_SEARCH_PROCESSOR" THEN vs
    ELSE NoSlot

\* whether the function writes the engine in the slot field by field
WritesTwice(op, arg, g, slot) ==
    /\ slot.some
    /\ g \in {"DATA_PROCESSOR", "VECTOR_SEARCH_PROCESSOR"}
    /\ IF op = "process_cutoff_data" THEN DecodeRecords(arg).ok
       ELSE IF op = "search_cutoffs" THEN DecodeFilters(arg).ok
       ELSE op \in {"add_vector", "search_by_vector", "generate_embedding", "clear_data"}

\* the slot after the function's first write to the engine in it
FirstHalf(op, arg, g, slot) ==
    IF op = "process_cutoff_data"
    THEN Some([slot.v EXCEPT
                  !.records = @ \o ParMapProcessRecord(DecodeRecords(arg).val)])
    ELSE IF op = "search_cutoffs"
         THEN Some([slot.v EXCEPT !.stats.total_searches_performed = @ + 1])
    ELSE IF op = "add_vector"
         THEN Some([slot.v EXCEPT !.vectors[arg.id] = Some(arg.vector)])
    ELSE IF op = "search_by_vector"
         THEN Some([slot.v EXCEPT !.stats.total_searches = @ + 1])
    ELSE IF op = "generate_embedding"
         THEN Some([slot.v EXCEPT !.stats.total_embeddings_generated = @ + 1])
    ELSE IF g = "DATA_PROCESSOR"
         THEN Some([slot.v EXCEPT !.records = <<>>])
    ELSE Some([slot.v EXCEPT !.vectors = [id \in IdUniverse |-> NoneVec]])

\* the orders the HashMap may be iterated in, where the function iterates it
OrdersFor(op, slot) ==
    IF op = "search_by_vector" /\ slot.some
    THEN IterationOrders(Keys(slot.v.vectors)) ELSE { <<>> }

\* the slot when the function has finished with it
After(op, arg, limit, g, slot, order, t) ==
    IF op = "init"
    THEN (IF g = "DATA_PROCESSOR" THEN Some(DataProcessor_new)
          ELSE IF g = "VECTOR_SEARCH_PROCESSOR" THEN Some(VectorSearchProcessor_new)
          ELSE slot)
    ELSE IF ~slot.some THEN slot
    ELSE IF op = "process_cutoff_data"
         THEN Some(DataProcessor_process_cutoff_data(slot.v, arg, t).self)
    ELSE IF op = "search_cutoffs"
         THEN Some(DataProcessor_search_cutoffs(slot.v, arg, limit, t).self)
    ELSE IF op = "add_vector"
         THEN Some(VectorSearchProcessor_add_vector(slot.v, arg.id, arg.vector, arg.metadata))
    ELSE IF op = "search_by_vector"
         THEN Some(VectorSearchProcessor_search_by_similarity(slot.v, arg, limit, order, t).self)
    ELSE IF op = "generate_embedding"
         THEN Some(VectorSearchProcessor_generate_embedding(slot.v, arg, t).self)
    ELSE IF op = "clear_data"
         THEN (IF g = "DATA_PROCESSOR" THEN Some(DataProcessor_clear_data(slot.v))
               ELSE IF g = "VECTOR_SEARCH_PROCESSOR"
                    THEN Some(VectorSearchProcessor_clear_data(slot.v))
               ELSE slot)
    ELSE slot

\* a caller enters an exported function
Enter(t, op, arg, limit) ==
    /\ pc[t].stage = "idle"
    /\ pc' = [pc EXCEPT ![t] = [ op |-> op, arg |-> arg, limit |-> limit, at |-> 1,
                                 stage |-> "wait", pre |-> NoSlot, torn |-> FALSE ]]
    /\ UNCHANGED <<dp, vs, call, guard, mm, cp>>

\* a mutant of Lock: the caller does not wait for the Mutex to be free
Lock_without_waiting(t) ==
    /\ pc[t].stage = "wait"
    /\ guard' = [guard EXCEPT ![CurGuard(t)] = t]
    /\ pc' = [pc EXCEPT
                 ![t].stage = "in",
                 ![t].pre = Slot(CurGuard(t)),
                 ![t].torn = \E u \in Callers \ {t} :
                                pc[u].stage = "half" /\ CurGuard(u) = CurGuard(t)]
    /\ UNCHANGED <<dp, vs, call, mm, cp>>

\* Mutex::lock: the caller gets the Mutex once no caller holds it
Lock(t) ==
    /\ pc[t].stage = "wait"
    /\ guard[CurGuard(t)] = Free
    /\ guard' = [guard EXCEPT ![CurGuard(t)] = t]
    /\ pc' = [pc EXCEPT
                 ![t].stage = "in",
                 ![t].pre = Slot(CurGuard(t)),
                 ![t].torn = \E u \in Callers \ {t} :
                                pc[u].stage = "half" /\ CurGuard(u) = CurGuard(t)]
    /\ UNCHANGED <<dp, vs, call, mm, cp>>

\* the function's first write to the engine
Apply(t) ==
    /\ pc[t].stage = "in"
    /\ WritesTwice(pc[t].op, pc[t].arg, CurGuard(t), pc[t].pre)
    /\ dp' = IF CurGuard(t) = "DATA_PROCESSOR"
             THEN FirstHalf(pc[t].op, pc[t].arg, CurGuard(t), pc[t].pre) ELSE dp
    /\ vs' = IF CurGuard(t) = "VECTOR_SEARCH_PROCESSOR"
             THEN FirstHalf(pc[t].op, pc[t].arg, CurGuard(t), pc[t].pre) ELSE vs
    /\ pc' = [pc EXCEPT ![t].stage = "half"]
    /\ UNCHANGED <<call, guard, mm, cp>>

\* a mutant of Release: the Mutex is kept until the function returns
Release_at_return(t) ==
    /\ pc[t].stage \in {"in", "half"}
    /\ pc[t].stage = "in" =>
          ~WritesTwice(pc[t].op, pc[t].arg, CurGuard(t), pc[t].pre)
    /\ \E c \in StoreClock, order \in OrdersFor(pc[t].op, pc[t].pre) :
          LET after == After(pc[t].op, pc[t].arg, pc[t].limit, CurGuard(t),
                             pc[t].pre, order, c)
          IN  /\ dp' = IF CurGuard(t) = "DATA_PROCESSOR" THEN after ELSE dp
              /\ vs' = IF CurGuard(t) = "VECTOR_SEARCH_PROCESSOR" THEN after ELSE vs
    /\ guard' = IF pc[t].at < Len(GuardsOf(pc[t].op)) THEN guard
                ELSE [g \in Guards |-> IF guard[g] = t THEN Free ELSE guard[g]]
    /\ pc' = [pc EXCEPT ![t] =
                 IF pc[t].at < Len(GuardsOf(pc[t].op))
                 THEN [pc[t] EXCEPT !.at = @ + 1, !.stage = "wait",
                                    !.pre = NoSlot, !.torn = FALSE]
                 ELSE Idle]
    /\ UNCHANGED <<call, mm, cp>>

\* the rest of the function's writes to the engine, and the guard going out
\* of scope: the Mutex is free again, and the caller goes on to the next
\* Mutex of the function or returns
Release(t) ==
    /\ pc[t].stage \in {"in", "half"}
    /\ pc[t].stage = "in" =>
          ~WritesTwice(pc[t].op, pc[t].arg, CurGuard(t), pc[t].pre)
    /\ \E c \in StoreClock, order \in OrdersFor(pc[t].op, pc[t].pre) :
          LET after == After(pc[t].op, pc[t].arg, pc[t].limit, CurGuard(t),
                             pc[t].pre, order, c)
          IN  /\ dp' = IF CurGuard(t) = "DATA_PROCESSOR" THEN after ELSE dp
              /\ vs' = IF CurGuard(t) = "VECTOR_SEARCH_PROCESSOR" THEN after ELSE vs
    /\ guard' = [guard EXCEPT ![CurGuard(t)] = Free]
    /\ pc' = [pc EXCEPT ![t] =
                 IF pc[t].at < Len(GuardsOf(pc[t].op))
                 THEN [pc[t] EXCEPT !.at = @ + 1, !.stage = "wait",
                                    !.pre = NoSlot, !.torn = FALSE]
                 ELSE Idle]
    /\ UNCHANGED <<call, mm, cp>>

\* the calls under way that add to an engine
InFlight ==
    Cardinality({ t \in Callers :
        pc[t].op \in { "process_cutoff_data", "search_cutoffs", "add_vector",
                       "search_by_vector", "generate_embedding" } })

InitGuards ==
    /\ dp = [some |-> FALSE, v |-> DataProcessor_new]
    /\ vs = [some |-> FALSE, v |-> VectorSearchProcessor_new]
    /\ call = NoCall
    /\ NoCallers

NextGuards ==
    \E t \in Callers :
        \/ Enter(t, "init", <<>>, 0)
        \/ /\ Work + InFlight < MaxGuarded
           /\ Enter(t, "process_cutoff_data", JsonArray(<<JsonObject(R0)>>), 0)
        \/ /\ Work + InFlight < MaxGuarded
           /\ Enter(t, "search_cutoffs", JsonFilter(NoFilters), MaxLimit)
        \/ /\ Work + InFlight < MaxGuarded /\ vs.some
           /\ Enter(t, "add_vector",
                    [ id |-> IdCatalogue[1], vector |-> VectorCatalogue[1],
                      metadata |-> MetadataOf(IdCatalogue[1]) ], 0)
        \/ /\ Work + InFlight < MaxGuarded
           /\ Enter(t, "search_by_vector", VectorCatalogue[1], MaxLimit)
        \/ /\ Work + InFlight < MaxGuarded
           /\ Enter(t, "generate_embedding", <<" ">>, 0)
        \/ Enter(t, "clear_data", <<>>, 0)
        \/ Enter(t, "get_performance_stats", <<>>, 0)
        \/ Lock(t)
        \/ Apply(t)
        \/ Release(t)

SpecGuards == InitGuards /\ [][NextGuards]_vars

\* SpecGuards with a scheduler that keeps every caller that can run running:
\* a caller inside an engine goes on, and a caller at a Mutex that stays free
\* gets it.  std::sync::Mutex gives the Mutex to whichever caller locks it
\* first once it is free, in no order among the callers waiting for it.
SpecGuardsFair ==
    /\ SpecGuards
    /\ \A t \in Callers :
          /\ WF_vars(Lock(t))
          /\ WF_vars(Apply(t))
          /\ WF_vars(Release(t))

(***************************************************************************)
(* What the claims speak of                                                *)
(***************************************************************************)
IsIngest == call.op = "process_cutoff_data"
IsSearch == call.op = "search_cutoffs"

\* the engine the call found, the records the call's payload decodes to, the
\* filter it decodes to, and the records the returned text decodes to
PreStore == call.pre.dp.v.records
Input == DecodeRecords(call.arg).val
CallFilters == DecodeFilters(call.arg).val
Returned == DecodeRecords(call.ret.val).val

\* how often r occurs in s
Count(s, r) == Cardinality({i \in 1..Len(s) : s[i] = r})

\* s ordered by ascending opening rank, records of equal rank in their order in s
RankOrdered(s) ==
    LET before(i) == {j \in 1..Len(s) :
                        \/ s[j].opening_rank < s[i].opening_rank
                        \/ s[j].opening_rank = s[i].opening_rank /\ j < i}
    IN  [p \in 1..Len(s) |-> s[CHOOSE i \in 1..Len(s) : Cardinality(before(i)) = p - 1]]

\* text contains part, letter case ignored
ContainsIgnoringCase(text, part) ==
    \E off \in 0..(Len(text) - Len(part)) :
        \A i \in 1..Len(part) : LowerChar(text[off + i]) = LowerChar(part[i])

\* record r satisfies the predicate of field k with value v
Satisfies(r, k, v) ==
    CASE k = "year" -> r.year = v
      [] k = "round" -> r.round = v
      [] k = "state" -> ContainsIgnoringCase(r.state, v)
      [] k = "course" -> ContainsIgnoringCase(r.course_name, v)
      [] k = "college" -> ContainsIgnoringCase(r.college_name, v)
      [] k = "min_rank" -> r.opening_rank >= v
      [] k = "max_rank" -> r.closing_rank <= v
      [] k = "category" -> ContainsIgnoringCase(r.category, v)
      [] k = "counselling_body" -> ContainsIgnoringCase(r.counselling_body, v)
      [] k = "level" -> ContainsIgnoringCase(r.level, v)
      [] k = "stream" -> ContainsIgnoringCase(r.stream, v)

SatisfiesAll(r, f) == \A k \in FilterFields : f[k].some => Satisfies(r, k, f[k].v)

\* the stored records that satisfy every present predicate of f, in store order
Eligible(s, f) == FilterSeq(s, [i \in 1..Len(s) |-> SatisfiesAll(s[i], f)])

(***************************************************************************)
(* C1: a successful ingest leaves the store as the old store followed by   *)
(* the decoded input in input order (nothing dropped, nothing reordered,   *)
(* no deduplication), and returns the whole store, not only the input.     *)
(***************************************************************************)
C1_IngestAppendsInOrder ==
    (IsIngest /\ call.ret.ok) =>
        /\ dp.v.records = PreStore \o Input
        /\ Len(dp.v.records) = Len(PreStore) + Len(Input)
        /\ SubSeq(dp.v.records, 1, Len(PreStore)) = PreStore
        /\ Returned = PreStore \o Input

\* an ingest of two different records into a store that already holds one of them
C1_Witness ==
    /\ IsIngest /\ call.ret.ok
    /\ PreStore # <<>> /\ Len(Input) = 2 /\ Input[1] # Input[2]
    /\ \E i \in 1..Len(PreStore) : PreStore[i].id = Input[2].id
    /\ Len(Returned) = Len(PreStore) + 2

(***************************************************************************)
(* C2: a search with the empty filter returns the first min(limit, N)      *)
(* records of the whole store ordered ascending by opening rank, records   *)
(* of equal rank in insertion order.                                       *)
(***************************************************************************)
C2_EmptyFilterRankPrefix ==
    (IsSearch /\ call.ret.ok /\ CallFilters = NoFilters) =>
        /\ Len(Returned) = Min(call.limit, Len(PreStore))
        /\ Returned = SubSeq(RankOrdered(PreStore), 1, Len(Returned))

\* the scenario: ranks [500, 10, 300] stored, search({}, 2) returns 10 then 300
C2_Witness ==
    /\ IsSearch /\ call.ret.ok /\ CallFilters = NoFilters /\ call.limit = 2
    /\ [i \in 1..Len(PreStore) |-> PreStore[i].opening_rank] = <<500, 10, 300>>
    /\ [i \in 1..Len(Returned) |-> Returned[i].opening_rank] = <<10, 300>>

(***************************************************************************)
(* C3: every returned record satisfies every predicate present in the      *)
(* filter, and when the limit is at least the number of matching records   *)
(* every stored record that satisfies them all is returned (as often as it *)
(* is stored).                                                             *)
(***************************************************************************)
C3_ResultIsConjunction ==
    (IsSearch /\ call.ret.ok) =>
        /\ \A i \in 1..Len(Returned) :
              /\ SatisfiesAll(Returned[i], CallFilters)
              /\ Count(Returned, Returned[i]) <= Count(PreStore, Returned[i])
        /\ call.limit >= Len(Eligible(PreStore, CallFilters)) =>
              \A j \in 1..Len(PreStore) :
                  SatisfiesAll(PreStore[j], CallFilters) =>
                      Count(Returned, PreStore[j]) = Count(PreStore, PreStore[j])

\* two predicates present; one stored record satisfies both and is returned, the
\* other satisfies only one of them and is not
C3_Witness ==
    /\ IsSearch /\ call.ret.ok /\ Len(PreStore) = 2 /\ call.limit = 2
    /\ Cardinality({k \in FilterFields : CallFilters[k].some}) = 2
    /\ Len(Returned) = 1
    /\ \E j \in 1..2, k \in FilterFields :
          /\ PreStore[j] # Returned[1]
          /\ CallFilters[k].some /\ Satisfies(PreStore[j], k, CallFilters[k].v)
          /\ ~SatisfiesAll(PreStore[j], CallFilters)

(***************************************************************************)
(* C4: an ingest or a search that fails (its payload does not decode)      *)
(* returns a failure value and leaves the engine as it found it: records,  *)
(* counters, averages and both latency sample lists.                       *)
(***************************************************************************)
PayloadDecodes ==
    IF IsIngest THEN DecodeRecords(call.arg).ok ELSE DecodeFilters(call.arg).ok

C4_FailedCallChangesNothing ==
    (IsIngest \/ IsSearch) =>
        /\ ~PayloadDecodes => ~call.ret.ok
        /\ ~call.ret.ok => (dp = call.pre.dp /\ vs = call.pre.vs)

\* an ingest fails at its second object, on an engine that holds records and
\* has counted an ingest and a search
C4_Witness ==
    /\ IsIngest /\ ~call.ret.ok
    /\ call.arg.wf /\ Len(call.arg.items) = 2 /\ DecodableRecord(call.arg.items[1])
    /\ PreStore # <<>>
    /\ call.pre.dp.v.stats.total_searches_performed > 0
    /\ call.pre.dp.v.processing_times # <<>> /\ call.pre.dp.v.search_times # <<>>

(***************************************************************************)
(* C5: a search returns min(limit, number of matching records) records,    *)
(* the leading ones of the matching records in rank order; limit 0 returns *)
(* none, a limit above the number of matches returns them all.             *)
(***************************************************************************)
C5_LimitTruncatesRankOrder ==
    (IsSearch /\ call.ret.ok) =>
        LET matches == RankOrdered(Eligible(PreStore, CallFilters))
        IN  /\ Len(Returned) = Min(call.limit, Len(matches))
            /\ Returned = SubSeq(matches, 1, Len(Returned))
            /\ call.limit = 0 => Returned = <<>>
            /\ call.limit > Len(matches) => Returned = matches

\* a limit between 0 and the number of matches cuts the result short, with a
\* stored record that does not match left out as well
C5_Witness ==
    /\ IsSearch /\ call.ret.ok
    /\ call.limit > 0 /\ call.limit < Len(Eligible(PreStore, CallFilters))
    /\ Len(Eligible(PreStore, CallFilters)) < Len(PreStore)
    /\ Len(Returned) = call.limit

(***************************************************************************)
(* C6: with the store fixed and a limit no smaller than the number of      *)
(* stored records, the result with one present predicate removed from the  *)
(* filter contains the result with it present.                             *)
(***************************************************************************)
\* what the search on the store the call found returns for filter f
ResultFor(f) ==
    DecodeRecords(DataProcessor_search_cutoffs(
                      call.pre.dp.v, JsonFilter(f), call.limit, 2).ret.val).val

WithoutPredicate(f, k) == [f EXCEPT ![k] = NoFilters[k]]

C6_RemovingPredicateOnlyGrows ==
    (IsSearch /\ call.ret.ok /\ call.limit >= Len(PreStore)) =>
        \A k \in {x \in FilterFields : CallFilters[x].some} :
            LET wider == ResultFor(WithoutPredicate(CallFilters, k))
            IN  \A i \in 1..Len(Returned) :
                    Count(Returned, Returned[i]) <= Count(wider, Returned[i])

\* a filter of two predicates whose result grows when either one is removed
C6_Witness ==
    /\ IsSearch /\ call.ret.ok /\ call.limit >= Len(PreStore)
    /\ Cardinality({k \in FilterFields : CallFilters[k].some}) = 2
    /\ \A k \in {x \in FilterFields : CallFilters[x].some} :
          Len(ResultFor(WithoutPredicate(CallFilters, k))) > Len(Returned)

(***************************************************************************)
(* C7: min_rank bounds the opening rank from below, inclusive, and         *)
(* max_rank bounds the closing rank from above, inclusive; nothing else is *)
(* compared, so a record whose closing rank is below its opening rank is   *)
(* kept or dropped by these two comparisons alone.                         *)
(***************************************************************************)
OnlyRankPredicates(f) ==
    /\ f.min_rank.some \/ f.max_rank.some
    /\ \A k \in FilterFields \ {"min_rank", "max_rank"} : ~f[k].some

IsReturned(r) == \E i \in 1..Len(Returned) : Returned[i] = r

C7_RankRangeAsymmetric ==
    (IsSearch /\ call.ret.ok /\ OnlyRankPredicates(CallFilters)
        /\ call.limit >= Len(PreStore)) =>
        \A j \in 1..Len(PreStore) :
            IsReturned(PreStore[j]) <=>
                /\ CallFilters.min_rank.some =>
                       PreStore[j].opening_rank >= CallFilters.min_rank.v
                /\ CallFilters.max_rank.some =>
                       PreStore[j].closing_rank <= CallFilters.max_rank.v

\* both bounds present; returned are a record whose opening rank is above
\* max_rank and a record whose closing rank is below min_rank
C7_Witness ==
    /\ IsSearch /\ call.ret.ok /\ OnlyRankPredicates(CallFilters)
    /\ CallFilters.min_rank.some /\ CallFilters.max_rank.some
    /\ \E i, j \in 1..Len(Returned) :
          /\ Returned[i].opening_rank > CallFilters.max_rank.v
          /\ Returned[i].closing_rank < Returned[i].opening_rank
          /\ Returned[j].closing_rank < CallFilters.min_rank.v
          /\ Returned[j].closing_rank < Returned[j].opening_rank

(***************************************************************************)
(* C8: clear_data leaves each engine with every counter and running        *)
(* average at zero and with its store (records, or vectors and metadata)   *)
(* and its latency sample lists empty, whatever calls came before;         *)
(* get_performance_stats right after it reports the zeros, and a search    *)
(* right after it returns the empty sequence.                              *)
(***************************************************************************)
IsVectorSearch == call.op = "search_by_vector"

C8_ClearResetsEngines ==
    /\ call.op = "clear_data" =>
          /\ dp.some =>
                /\ dp.v.records = <<>>
                /\ dp.v.processing_times = <<>> /\ dp.v.search_times = <<>>
                /\ dp.v.stats.total_records_processed = 0
                /\ dp.v.stats.total_searches_performed = 0
                /\ dp.v.stats.total_records_indexed = 0
                /\ dp.v.stats.average_processing_time.n = 0
                /\ dp.v.stats.average_search_time.n = 0
          /\ vs.some =>
                /\ Keys(vs.v.vectors) = {} /\ Keys(vs.v.metadata) = {}
                /\ vs.v.search_times = <<>> /\ vs.v.embedding_times = <<>>
                /\ vs.v.stats.total_searches = 0
                /\ vs.v.stats.total_embeddings_generated = 0
                /\ vs.v.stats.total_vectors_indexed = 0
                /\ vs.v.stats.average_search_time.n = 0
                /\ vs.v.stats.average_embedding_time.n = 0
    /\ (call.op = "get_performance_stats" /\ call.after_clear) =>
          /\ call.ret.val.data_processing.some =>
                call.ret.val.data_processing.v =
                    [ total_records_processed |-> 0, total_searches_performed |-> 0,
                      average_processing_time |-> [n |-> 0, d |-> 1],
                      average_search_time |-> [n |-> 0, d |-> 1],
                      total_records_indexed |-> 0 ]
          /\ call.ret.val.vector_search.some =>
                call.ret.val.vector_search.v =
                    [ total_searches |-> 0, total_embeddings_generated |-> 0,
                      average_search_time |-> [n |-> 0, d |-> 1],
                      average_embedding_time |-> [n |-> 0, d |-> 1],
                      total_vectors_indexed |-> 0 ]
    /\ (IsSearch /\ call.after_clear /\ call.ret.ok) => Returned = <<>>
    /\ (IsVectorSearch /\ call.after_clear /\ call.ret.ok) => call.ret.val = <<>>

\* clear_data on engines that hold records and vectors and have counted an
\* ingest, an upsert, a vector search and an embedding
C8_Witness ==
    /\ call.op = "clear_data"
    /\ call.pre.dp.some /\ call.pre.dp.v.records # <<>>
    /\ call.pre.dp.v.stats.total_records_processed > 0
    /\ call.pre.vs.some /\ Keys(call.pre.vs.v.vectors) # {}
    /\ call.pre.vs.v.stats.total_vectors_indexed > 0
    /\ call.pre.vs.v.embedding_times # <<>> /\ call.pre.vs.v.search_times # <<>>
    /\ dp.v.records = <<>> /\ Keys(vs.v.vectors) = {}

(***************************************************************************)
(* C9: add_vector is an upsert: afterwards the identifier maps to exactly  *)
(* the given vector and the given metadata (nothing of a previous entry    *)
(* is kept), every other identifier's entry is as before, and the vectors  *)
(* indexed counter is one greater than before whether or not the           *)
(* identifier was stored already.                                          *)
(***************************************************************************)
C9_AddVectorIsUpsert ==
    call.op = "add_vector" =>
        /\ vs.v.vectors[call.arg.id] = Some(call.arg.vector)
        /\ vs.v.metadata[call.arg.id] = Some(call.arg.metadata)
        /\ \A id \in IdUniverse \ {call.arg.id} :
              /\ vs.v.vectors[id] = call.pre.vs.v.vectors[id]
              /\ vs.v.metadata[id] = call.pre.vs.v.metadata[id]
        /\ vs.v.stats.total_vectors_indexed =
              call.pre.vs.v.stats.total_vectors_indexed + 1

\* an identifier stored already gets another vector and metadata without a
\* key the old metadata had, beside another stored identifier; the counter
\* now exceeds the number of stored vectors
C9_Witness ==
    /\ call.op = "add_vector"
    /\ call.pre.vs.v.vectors[call.arg.id].some
    /\ call.pre.vs.v.vectors[call.arg.id].v # call.arg.vector
    /\ \E kv \in call.pre.vs.v.metadata[call.arg.id].v :
          \A new \in call.arg.metadata : new[1] # kv[1]
    /\ Keys(vs.v.vectors) \ {call.arg.id} # {}
    /\ vs.v.stats.total_vectors_indexed > Cardinality(Keys(vs.v.vectors))

(***************************************************************************)
(* C10: a vector search with query q and limit L over an index of n        *)
(* identifiers returns min(L, n) results, each stored identifier at most   *)
(* once, with the similarity of q against its vector and its metadata, in  *)
(* an order where no result has a smaller similarity than a later one, and *)
(* no identifier left out has a greater similarity than a returned one.    *)
(***************************************************************************)
PreIndex == call.pre.vs.v
Results == call.ret.val
SimilarityOf(id) == cosine_similarity(call.arg, PreIndex.vectors[id].v)

C10_SearchRanksBySimilarity ==
    (IsVectorSearch /\ call.ret.ok) =>
        LET stored == Keys(PreIndex.vectors)
            returned == {Results[i].id : i \in 1..Len(Results)}
        IN  /\ Len(Results) = Min(call.limit, Cardinality(stored))
            /\ returned \subseteq stored
            /\ \A i, j \in 1..Len(Results) : i # j => Results[i].id # Results[j].id
            /\ \A i \in 1..Len(Results) :
                  /\ Results[i].similarity = EncodeF32(SimilarityOf(Results[i].id))
                  /\ Results[i].metadata = PreIndex.metadata[Results[i].id].v
            /\ \A i, j \in 1..Len(Results) :
                  i < j => ~F32Less(SimilarityOf(Results[i].id), SimilarityOf(Results[j].id))
            /\ \A o \in stored \ returned, i \in 1..Len(Results) :
                  ~F32Less(SimilarityOf(Results[i].id), SimilarityOf(o))

(***************************************************************************)
(* C11: cosine_similarity(a, b) is exactly 0.0 whenever a and b differ in  *)
(* length or either of them is a zero vector (the empty vector is one),    *)
(* and a vector search succeeds, with similarity 0.0 for such an entry,    *)
(* whatever the lengths of the query and of the stored vectors.            *)
(***************************************************************************)
IsCosine == call.op = "cosine_similarity"
IsZeroVector(a) == \A i \in 1..Len(a) : IsZero(a[i])
Degenerate(a, b) == Len(a) # Len(b) \/ IsZeroVector(a) \/ IsZeroVector(b)

C11_DegenerateSimilarityIsZero ==
    /\ IsCosine =>
          (Degenerate(call.arg[1], call.arg[2]) => call.ret = Ok(F32Zero))
    /\ IsVectorSearch =>
          /\ call.ret.ok
          /\ \A i \in 1..Len(Results) :
                Degenerate(call.arg, PreIndex.vectors[Results[i].id].v)
                    => Results[i].similarity = F32Zero

\* a search whose query is neither empty nor zero over stored vectors of
\* another length, a stored zero vector and a stored vector it has a
\* similarity other than 0.0 with
C11_Witness ==
    /\ IsVectorSearch /\ call.ret.ok
    /\ ~IsZeroVector(call.arg)
    /\ \E i, j, k \in 1..Len(Results) :
          /\ Len(PreIndex.vectors[Results[i].id].v) \notin {0, Len(call.arg)}
          /\ ~IsZeroVector(PreIndex.vectors[Results[i].id].v)
          /\ Results[i].similarity = F32Zero
          /\ Len(PreIndex.vectors[Results[j].id].v) = Len(call.arg)
          /\ IsZeroVector(PreIndex.vectors[Results[j].id].v)
          /\ Results[j].similarity = F32Zero
          /\ Results[k].similarity # F32Zero

(***************************************************************************)
(* C12: cosine similarity is symmetric: for vectors a and b of one length, *)
(* cosine_similarity(a, b) == cosine_similarity(b, a).                     *)
(***************************************************************************)
C12_CosineSymmetric ==
    (IsCosine /\ Len(call.arg[1]) = Len(call.arg[2])) =>
        F32Eq(call.ret.val, cosine_similarity(call.arg[2], call.arg[1]))

(***************************************************************************)
(* C13: for a vector a that is not a zero vector, cosine_similarity(a, a)  *)
(* == 1.0 exactly.                                                         *)
(***************************************************************************)
C13_SelfSimilarityIsOne ==
    (IsCosine /\ call.arg[1] = call.arg[2] /\ ~IsZeroVector(call.arg[1])) =>
        F32Eq(call.ret.val, One)

(***************************************************************************)
(* C14: what generate_embedding returns depends on its text alone: on any  *)
(* engine, after any calls, it is the vector (of 384 components) that a    *)
(* new engine returns for the same text, so two calls with one text return *)
(* the same vector whatever happens between them; for the empty text and   *)
(* for a text of whitespace only it is the all-zero vector.                *)
(***************************************************************************)
IsEmbedding == call.op = "generate_embedding"
Blank(text) == \A i \in 1..Len(text) : IsWhitespace(text[i])

C14_EmbeddingDependsOnTextOnly ==
    (IsEmbedding /\ call.ret.ok) =>
        /\ call.ret.val =
              VectorSearchProcessor_generate_embedding(
                  VectorSearchProcessor_new, call.arg, 0).ret.val
        /\ Len(call.ret.val) = EmbeddingSize
        /\ Blank(call.arg) => \A i \in 1..EmbeddingSize : IsZero(call.ret.val[i])

\* an embedding of a text with words, on an engine that holds a vector and
\* has generated an embedding before
C14_Witness ==
    /\ IsEmbedding /\ call.ret.ok
    /\ ~Blank(call.arg)
    /\ Keys(call.pre.vs.v.vectors) # {}
    /\ call.pre.vs.v.stats.total_embeddings_generated > 0
    /\ \E i \in 1..EmbeddingSize : ~IsZero(call.ret.val[i])

(***************************************************************************)
(* C15: an exported function works on an engine only while it holds the    *)
(* Mutex of the engine's slot, so at most one caller is inside an engine   *)
(* at a time, a second caller of the same engine waits until the Mutex is  *)
(* free, the engine under a caller is as that caller found or wrote it,    *)
(* and no caller finds an engine that another caller has half written (an  *)
(* ingest, an add, a search counter or a clear).                           *)
(***************************************************************************)
Inside(t) == pc[t].stage \in {"in", "half"}

C15_OneCallerInsideAnEngine ==
    /\ \A t \in Callers : Inside(t) => guard[CurGuard(t)] = t
    /\ \A t, u \in Callers :
          (t # u /\ Inside(t) /\ Inside(u)) => CurGuard(t) # CurGuard(u)
    /\ \A t \in Callers : ~pc[t].torn
    /\ \A t \in Callers :
          /\ pc[t].stage = "in" => Slot(CurGuard(t)) = pc[t].pre
          /\ pc[t].stage = "half" =>
                Slot(CurGuard(t)) = FirstHalf(pc[t].op, pc[t].arg, CurGuard(t), pc[t].pre)

\* a caller waits for the Record Store while another caller is inside an
\* ingest that has appended its records and not yet counted them
C15_Witness ==
    \E t, u \in Callers :
        /\ t # u
        /\ pc[t].stage = "wait" /\ CurGuard(t) = "DATA_PROCESSOR"
        /\ pc[u].stage = "half" /\ CurGuard(u) = "DATA_PROCESSOR"
        /\ pc[u].op = "process_cutoff_data"
        /\ Len(dp.v.records) > dp.v.stats.total_records_indexed

(***************************************************************************)
(* C16: an exported function called while the engine it works on has not   *)
(* been created by init returns a failure that says so (not initialized),  *)
(* and leaves both slots as they were; this holds for every exported       *)
(* function, clear_data and get_performance_stats included.                *)
(***************************************************************************)
NotInitialized ==
    { "Data processor not initialized", "Vector search processor not initialized" }

\* the engine the call works on was missing when the call was made
EngineMissing ==
    \/ call.op \in {"process_cutoff_data", "search_cutoffs"} /\ ~call.pre.dp.some
    \/ call.op \in {"search_by_vector", "generate_embedding"} /\ ~call.pre.vs.some
    \/ /\ call.op \in {"clear_data", "get_performance_stats"}
       /\ ~call.pre.dp.some /\ ~call.pre.vs.some

C16_BeforeInitFails ==
    EngineMissing =>
        /\ ~call.ret.ok
        /\ call.ret.val \in NotInitialized
        /\ dp = call.pre.dp /\ vs = call.pre.vs

(***************************************************************************)
(* C17: in every state of the Record Store the records indexed counter is  *)
(* the number of records stored, and the records processed counter is the  *)
(* sum of the lengths of the payloads ingested since the engine was made   *)
(* or last cleared: both are zero at first and after clear_data, an ingest *)
(* of k records that succeeds raises both by exactly k, and a failed       *)
(* ingest or a search leaves both as they were.                            *)
(***************************************************************************)
C17_RecordCountersFollowTheStore ==
    /\ dp.v.stats.total_records_indexed = Len(dp.v.records)
    /\ dp.v.stats.total_records_processed = Len(dp.v.records)
    /\ call.op = "none" => dp.v.stats.total_records_processed = 0
    /\ call.op = "clear_data" =>
          dp.v.stats.total_records_processed = 0 /\ dp.v.stats.total_records_indexed = 0
    /\ (IsIngest /\ call.ret.ok) =>
          /\ dp.v.stats.total_records_processed =
                call.pre.dp.v.stats.total_records_processed + Len(Input)
          /\ dp.v.stats.total_records_indexed =
                call.pre.dp.v.stats.total_records_indexed + Len(Input)
    /\ ((IsIngest /\ ~call.ret.ok) \/ IsSearch) =>
          /\ dp.v.stats.total_records_processed =
                call.pre.dp.v.stats.total_records_processed
          /\ dp.v.stats.total_records_indexed = call.pre.dp.v.stats.total_records_indexed

\* an ingest of two records into a store that an earlier ingest has filled
C17_Witness ==
    /\ IsIngest /\ call.ret.ok
    /\ Len(Input) = 2
    /\ PreStore # <<>>
    /\ dp.v.stats.total_records_processed = Len(PreStore) + 2
    /\ dp.v.stats.total_records_indexed = Len(dp.v.records)

(***************************************************************************)
(* C18: a search that succeeds reads the data and writes only its own      *)
(* bookkeeping.  search_cutoffs leaves the records and the other engine    *)
(* as they were, raises the searches performed counter by one and appends  *)
(* one latency sample; search_by_vector leaves vectors, metadata, the      *)
(* vectors indexed counter and the other engine as they were, raises the   *)
(* searches counter by one and appends one latency sample; and             *)
(* generate_embedding leaves vectors and metadata as they were and raises, *)
(* of the counters, only embeddings generated, by one.                     *)
(***************************************************************************)
\* s is p with one more element
OneMore(s, p) == Len(s) = Len(p) + 1 /\ SubSeq(s, 1, Len(p)) = p

C18_SearchWritesOnlyBookkeeping ==
    /\ (IsSearch /\ call.ret.ok) =>
          /\ vs = call.pre.vs
          /\ dp.v.records = PreStore
          /\ dp.v.processing_times = call.pre.dp.v.processing_times
          /\ dp.v.stats.total_records_processed =
                call.pre.dp.v.stats.total_records_processed
          /\ dp.v.stats.total_records_indexed = call.pre.dp.v.stats.total_records_indexed
          /\ dp.v.stats.total_searches_performed =
                call.pre.dp.v.stats.total_searches_performed + 1
          /\ OneMore(dp.v.search_times, call.pre.dp.v.search_times)
    /\ (IsVectorSearch /\ call.ret.ok) =>
          /\ dp = call.pre.dp
          /\ vs.v.vectors = PreIndex.vectors /\ vs.v.metadata = PreIndex.metadata
          /\ vs.v.embedding_times = PreIndex.embedding_times
          /\ vs.v.stats.total_vectors_indexed = PreIndex.stats.total_vectors_indexed
          /\ vs.v.stats.total_embeddings_generated =
                PreIndex.stats.total_embeddings_generated
          /\ vs.v.stats.total_searches = PreIndex.stats.total_searches + 1
          /\ OneMore(vs.v.search_times, PreIndex.search_times)
    /\ (IsEmbedding /\ call.ret.ok) =>
          /\ dp = call.pre.dp
          /\ vs.v.vectors = PreIndex.vectors /\ vs.v.metadata = PreIndex.metadata
          /\ vs.v.search_times = PreIndex.search_times
          /\ vs.v.stats.total_vectors_indexed = PreIndex.stats.total_vectors_indexed
          /\ vs.v.stats.total_searches = PreIndex.stats.total_searches
          /\ vs.v.stats.total_embeddings_generated =
                PreIndex.stats.total_embeddings_generated + 1
          /\ OneMore(vs.v.embedding_times, PreIndex.embedding_times)

\* a vector search that returns two results, on an index that has been
\* searched before
C18_Witness ==
    /\ IsVectorSearch /\ call.ret.ok
    /\ Len(Results) = 2
    /\ PreIndex.stats.total_searches = 1
    /\ vs.v.stats.total_searches = 2
    /\ Keys(vs.v.vectors) = Keys(PreIndex.vectors)

(***************************************************************************)
(* C19: generate_embedding gives each word of the lowercased text one      *)
(* slot, h mod 384, where h starts at 0 and becomes (h * 31 + byte) mod    *)
(* 2^32 for each byte of the word (so a word of any length has a slot),    *)
(* and adds 1 / (number of words) to that slot for each word; a slot holds *)
(* that weight added as many times as there are words with that slot, and  *)
(* the vector returned is that vector divided by its norm.                 *)
(***************************************************************************)
\* (h * 31 + byte) mod 2^32 with h as its four base-256 digits, lowest first
WrappingMul31Add(d, byte) ==
    LET x1 == d[1] * 31 + byte
        x2 == d[2] * 31 + x1 \div 256
        x3 == d[3] * 31 + x2 \div 256
        x4 == d[4] * 31 + x3 \div 256
    IN  << x1 % 256, x2 % 256, x3 % 256, x4 % 256 >>

RECURSIVE RollingHash(_, _)
RollingHash(word, n) ==
    IF n = 0 THEN << 0, 0, 0, 0 >>
    ELSE WrappingMul31Add(RollingHash(word, n - 1), Byte(word[n]))

\* h mod 384: 256, 256^2 and 256^3 all leave 256
SlotOfWord(word) ==
    Only({ (256 * (d[2] + d[3] + d[4]) + d[1]) % 384 : d \in {RollingHash(word, Len(word))} })

\* weight added n times to 0.0
RECURSIVE Times(_, _)
Times(weight, n) == IF n = 0 THEN F32Zero ELSE F32Add(Times(weight, n - 1), weight)

\* the vector the claim describes, for the words and their slots
Contributions(words, slots) ==
    Only({ [i \in 1..EmbeddingSize |->
               Times(weight, Cardinality({n \in 1..Len(words) : slots[n] = i - 1}))]
           : weight \in {F32Div(One, F32FromInt(Len(words)))} })

Normalised(v) ==
    Only({ IF F32Less(F32Zero, norm) THEN [i \in 1..EmbeddingSize |-> F32Div(v[i], norm)]
           ELSE v
           : norm \in {EmbeddingNorm(v)} })

C19_WordsAddWeightBySlot ==
    (IsEmbedding /\ call.ret.ok) =>
        \E words \in {split_whitespace(to_lowercase(call.arg))} :
            \E slots \in {[n \in 1..Len(words) |-> SlotOfWord(words[n])]} :
                \E before \in {Contributions(words, slots)} :
                    /\ \A i \in 1..EmbeddingSize :
                          IsZero(call.ret.val[i]) <=> (\A n \in 1..Len(words) : slots[n] # i - 1)
                    /\ call.ret.val = Normalised(before)

\* three words: "a" and "cd", which share slot 97, and "medical", whose hash
\* passes 2^32 and whose slot is 273; the shared slot holds twice the other
C19_Witness ==
    /\ IsEmbedding /\ call.ret.ok
    /\ Len(split_whitespace(to_lowercase(call.arg))) = 3
    /\ { i \in 1..EmbeddingSize : ~IsZero(call.ret.val[i]) } = {98, 274}
    /\ F32Less(call.ret.val[274], call.ret.val[98])

(***************************************************************************)
(* C20: no exported function holds more than one Mutex at a time (init,    *)
(* clear_data and get_performance_stats take theirs one after another), so *)
(* callers side by side never deadlock, a caller at DATA_PROCESSOR is not  *)
(* kept out by a caller that holds only VECTOR_SEARCH_PROCESSOR, and,      *)
(* with every caller that can run kept running, every call returns.        *)
(***************************************************************************)
HeldBy(t) == { g \in Guards : guard[g] = t }

OneGuardAtATime == \A t \in Callers : Cardinality(HeldBy(t)) <= 1

\* while a call is under way, some caller inside a function can take a step
NoDeadlock ==
    (\E t \in Callers : pc[t].stage # "idle") =>
        \E t \in Callers : ENABLED (Lock(t) \/ Apply(t) \/ Release(t))

RecordStoreNotBlockedBySimilarityIndex ==
    \A t \in Callers :
        ( /\ pc[t].stage = "wait"
          /\ CurGuard(t) = "DATA_PROCESSOR"
          /\ \A g \in Guards : guard[g] # Free => g = "VECTOR_SEARCH_PROCESSOR" )
        => ENABLED Lock(t)

C20_GuardsOneAtATime ==
    /\ OneGuardAtATime
    /\ NoDeadlock
    /\ RecordStoreNotBlockedBySimilarityIndex

EveryCallReturns ==
    \A t \in Callers : (pc[t].stage # "idle") ~> (pc[t].stage = "idle")

\* the callers that wait get the Mutex if it is free again and again
LockIsFair == \A t \in Callers : SF_vars(Lock(t))

\* with a Mutex that is fair to the callers waiting for it, every call returns
EveryCallReturnsWithFairLock == LockIsFair => EveryCallReturns

C20_EveryCallReturns == []C20_GuardsOneAtATime /\ EveryCallReturns

(***************************************************************************)
(* C21: whatever allocate, deallocate and clear_all calls a MemoryManager  *)
(* has had, an allocate on an identifier that is live among them,          *)
(* used_memory is the sum of the sizes of the live allocations, and        *)
(* allocation_count - deallocation_count is at least their number.         *)
(***************************************************************************)
UsedMemoryIsLiveSizes == mm.stats.used_memory = get_total_allocated_size(mm)

CountsCoverLive ==
    mm.stats.allocation_count - mm.stats.deallocation_count >= get_allocation_count(mm)

C21_UsedMemoryIsLiveSizes == UsedMemoryIsLiveSizes /\ CountsCoverLive

(***************************************************************************)
(* C22: in the report of calculate_analytics for a payload with records,   *)
(* every record, whatever its opening rank from 0 up, is counted under one *)
(* label of rank_distribution, and the range that label names holds the    *)
(* record's opening rank; the counts of rank_distribution add up to        *)
(* total_records, and so do the counts of each other distribution.         *)
(***************************************************************************)
IsReport ==
    /\ call.op = "calculate_analytics"
    /\ call.ret.ok
    /\ DecodeRecords(call.arg).val # <<>>

\* the ranks a label names: from lo to hi, or from lo up ("100000+" read as
\* 100000 and more)
LabelledRange(label) ==
    IF label = "1-100" THEN [lo |-> 1, hi |-> Some(100)]
    ELSE IF label = "101-500" THEN [lo |-> 101, hi |-> Some(500)]
    ELSE IF label = "501-1000" THEN [lo |-> 501, hi |-> Some(1000)]
    ELSE IF label = "1001-5000" THEN [lo |-> 1001, hi |-> Some(5000)]
    ELSE IF label = "5001-10000" THEN [lo |-> 5001, hi |-> Some(10000)]
    ELSE IF label = "10001-50000" THEN [lo |-> 10001, hi |-> Some(50000)]
    ELSE IF label = "50001-100000" THEN [lo |-> 50001, hi |-> Some(100000)]
    ELSE [lo |-> 100000, hi |-> NoneNum]

InLabelledRange(rank, label) ==
    /\ LabelledRange(label).lo <= rank
    /\ LabelledRange(label).hi.some => rank <= LabelledRange(label).hi.v

RECURSIVE SumCounts(_, _)
SumCounts(distribution, keys) ==
    IF keys = {} THEN 0
    ELSE LET k == CHOOSE x \in keys : TRUE
         IN  distribution[k] + SumCounts(distribution, keys \ {k})

Total(distribution) == SumCounts(distribution, DOMAIN distribution)

\* the records can be dealt to the labels so that each label has as many
\* records as its count and names a range that holds the rank of each of them
EveryRankInItsBucket ==
    IsReport =>
        \E records \in {DecodeRecords(call.arg).val} :
            \E bucket \in [1..Len(records) -> DOMAIN call.ret.val.rank_distribution] :
                /\ \A i \in 1..Len(records) :
                      InLabelledRange(records[i].opening_rank, bucket[i])
                /\ \A label \in DOMAIN call.ret.val.rank_distribution :
                      call.ret.val.rank_distribution[label] =
                          Cardinality({ i \in 1..Len(records) : bucket[i] = label })

DistributionsAddUp ==
    IsReport =>
        \E report \in {call.ret.val} :
            /\ report.total_records = Len(DecodeRecords(call.arg).val)
            /\ \A distribution \in
                     { report.rank_distribution, report.state_distribution,
                       report.course_distribution, report.college_distribution,
                       report.year_distribution, report.round_distribution,
                       report.category_distribution, report.counselling_body_distribution,
                       report.level_distribution, report.stream_distribution } :
                   Total(distribution) = report.total_records

C22_EveryRankInItsBucket == EveryRankInItsBucket /\ DistributionsAddUp

(***************************************************************************)
(* C23: compress_lz4 succeeds on every byte sequence once the processor is *)
(* there, the empty sequence and sequences shorter than their compressed   *)
(* form included: data.len() - compressed.len() does not go below zero, no *)
(* panic poisons the Mutex, and average_compression_ratio stays a finite   *)
(* percentage of at most 100.                                              *)
(***************************************************************************)
\* a value with a positive share of 2^32 is far above 100: the shares and
\* units of the model are fractions of numbers below a thousand
FinitePercentage(x) ==
    /\ x.kind = "finite"
    /\ x.w.n = 0
    /\ x.u.n >= 0 /\ x.u.n <= 100 * x.u.d

C23_CompressAlwaysSucceeds ==
    /\ ~cp.poisoned
    /\ cp.slot.some => FinitePercentage(cp.slot.v.stats.average_compression_ratio)
    /\ (call.op = "compress_lz4" /\ cp.slot.some) =>
          /\ call.ret.ok
          /\ Len(compress_prepend_size(call.arg)) <= Len(call.arg)

=============================================================================
